---- MODULE Spec2Model ----
(***************************************************************************)
(* Restaurant booking agent: the conversation turn machine of              *)
(* agent/agent_graph.py, the booking facade of agent/tools.py and the      *)
(* gateway of agent/api_client.py.                                         *)
(*                                                                         *)
(* Python strings that the code inspects character by character (entity    *)
(* values, dates, times, references) are sequences of one-character        *)
(* strings.  Python strings that the code only stores and compares         *)
(* (intents, error texts) are TLA+ strings.                                *)
(***************************************************************************)
EXTENDS Integers, Sequences, FiniteSets, TLC

VARIABLES
    state,      \* the ConversationState the turn works on
    pc,         \* the node of the graph that runs next ("idle": between turns)
    turn,       \* number of turns started
    today,      \* datetime.now().date(), as days since 1970-01-01
    pre,        \* history: the state the current turn started from
    trace,      \* history: the nodes that ran in the current turn, with outcome
    calls,      \* history: gateway method calls made in the current turn
    hist,       \* history: what the finished turns of the session did
    prehist,    \* history: hist when the current turn started
    arg,        \* a function of the program applied on its own: its input
    out,        \* and its result
    heap,       \* the state dicts created so far; a dict is named by its index
    sessions,   \* main_agent.sessions: session id -> the dict stored under it
    chats,      \* the requests to POST /api/chat
    websocket,  \* the connection to /ws/{session_id}
    cleared,    \* history: the last DELETE /api/sessions/{session_id}
    ghost       \* history: who wrote a session last, what it would hold if
                \* its turns had run alone, whether its requests overlapped

\* the variables of one session's turn, and of a function applied on its own
turnvars == <<state, pc, turn, today, pre, trace, calls, hist, prehist>>
purevars == <<arg, out>>
storevars == <<heap, sessions, chats, websocket, cleared, ghost>>
vars == <<turnvars, purevars, storevars>>

\* Number of turns a behaviour of Spec runs.
MaxTurns == 3

(***************************************************************************)
(* Python values                                                           *)
(***************************************************************************)
\* None where a character string is expected: no character sequence equals it.
NoneT == <<"None">>
\* None where an intent or an error text is expected (the parser lower-cases
\* intents and no failure text of the model is this string).
NONE == "None"
\* None as last_api_response.
NoneEnv == [kind |-> "None"]
\* {}
EmptyDict == [k \in {} |-> <<>>]

\* bool(v) for an optional character string
Truthy(v) == v # NoneT /\ v # <<>>
\* bool(v) for an optional intent or error text
TruthyS(v) == v # NONE /\ v # ""
\* d.get(k)
Get(d, k) == IF k \in DOMAIN d THEN d[k] ELSE NoneT
\* a or b
Or(a, b) == IF Truthy(a) THEN a ELSE b
\* variant of Update: the values already in d are kept
Update_Keep(d, e) ==
    [k \in DOMAIN d \cup DOMAIN e |-> IF k \in DOMAIN d THEN d[k] ELSE e[k]]
\* d.update(e)
Update(d, e) ==
    [k \in DOMAIN d \cup DOMAIN e |-> IF k \in DOMAIN e THEN e[k] ELSE d[k]]

Last(s) == s[Len(s)]

(***************************************************************************)
(* Character strings                                                       *)
(***************************************************************************)
Digits == <<"0", "1", "2", "3", "4", "5", "6", "7", "8", "9">>
IsDigit(c) == \E i \in 1..10 : Digits[i] = c
DigitVal(c) == (CHOOSE i \in 1..10 : Digits[i] = c) - 1
DigitChar(n) == Digits[n + 1]

Upper == <<"A", "B", "C", "D", "E", "F", "G", "H", "I", "J", "K", "L", "M",
           "N", "O", "P", "Q", "R", "S", "T", "U", "V", "W", "X", "Y", "Z">>
LowerLetters == <<"a", "b", "c", "d", "e", "f", "g", "h", "i", "j", "k", "l", "m",
                  "n", "o", "p", "q", "r", "s", "t", "u", "v", "w", "x", "y", "z">>
LowerChar(c) ==
    IF \E i \in 1..26 : Upper[i] = c
    THEN LowerLetters[CHOOSE i \in 1..26 : Upper[i] = c]
    ELSE c
\* str.lower()
Lower(s) == [i \in 1..Len(s) |-> LowerChar(s[i])]

\* str.strip()
RECURSIVE LStrip(_)
LStrip(s) == IF s # <<>> /\ Head(s) = " " THEN LStrip(Tail(s)) ELSE s
RECURSIVE RStrip(_)
RStrip(s) ==
    IF s # <<>> /\ Last(s) = " " THEN RStrip(SubSeq(s, 1, Len(s) - 1)) ELSE s
Strip(s) == RStrip(LStrip(s))

\* w in s
Contains(s, w) ==
    \E i \in 1..(Len(s) - Len(w) + 1) : SubSeq(s, i, i + Len(w) - 1) = w

\* s.split(c), c one character
RECURSIVE SplitAcc(_, _, _)
SplitAcc(s, c, cur) ==
    IF s = <<>> THEN <<cur>>
    ELSE IF Head(s) = c THEN <<cur>> \o SplitAcc(Tail(s), c, <<>>)
    ELSE SplitAcc(Tail(s), c, Append(cur, Head(s)))
Split(s, c) == SplitAcc(s, c, <<>>)

\* s.zfill(2): zeros on the left up to width 2, after a leading sign
ZFill2(s) ==
    IF Len(s) >= 2 THEN s
    ELSE IF Len(s) = 1 /\ s[1] \in {"+", "-"} THEN <<s[1], "0">>
    ELSE IF Len(s) = 1 THEN <<"0", s[1]>>
    ELSE <<"0", "0">>

\* the value of a string of digits
RECURSIVE DigitsValue(_)
DigitsValue(s) ==
    IF s = <<>> THEN 0
    ELSE 10 * DigitsValue(SubSeq(s, 1, Len(s) - 1)) + DigitVal(Last(s))

AllDigits(s) == s # <<>> /\ \A i \in 1..Len(s) : IsDigit(s[i])

\* re.search(r'\d+', s): the first maximal run of digits, NoneT when none
FirstDigitIndex(s) ==
    CHOOSE i \in 1..Len(s) : IsDigit(s[i]) /\ \A j \in 1..(i - 1) : ~IsDigit(s[j])
DigitRunEnd(s, b) ==
    CHOOSE i \in b..Len(s) :
        /\ \A j \in b..i : IsDigit(s[j])
        /\ (i = Len(s) \/ ~IsDigit(s[i + 1]))
DigitRunFrom(s, b) == SubSeq(s, b, DigitRunEnd(s, b))
FirstDigitRun(s) ==
    IF \A i \in 1..Len(s) : ~IsDigit(s[i]) THEN NoneT
    ELSE DigitRunFrom(s, FirstDigitIndex(s))

\* decimal digits of n >= 0
RECURSIVE NatChars(_)
NatChars(n) ==
    IF n < 10 THEN <<DigitChar(n)>>
    ELSE NatChars(n \div 10) \o <<DigitChar(n % 10)>>

\* f"{n:02d}" and strftime's %m, %d, %H, %M, %S
Pad2(n) == IF n < 10 THEN <<"0", DigitChar(n)>> ELSE NatChars(n)
\* strftime's %Y
Pad4(n) ==
    LET c == NatChars(n)
    IN [i \in 1..(4 - Len(c)) |-> "0"] \o c

\* int(v) of the built-in: an optional sign and decimal digits; anything else
\* (None, the empty string, words) raises
IntOk(v) ==
    /\ v # NoneT
    /\ LET b == IF v # <<>> /\ v[1] \in {"+", "-"} THEN Tail(v) ELSE v
       IN AllDigits(b)
IntVal(v) ==
    LET neg == v[1] = "-"
        b == IF v[1] \in {"+", "-"} THEN Tail(v) ELSE v
    IN IF neg THEN 0 - DigitsValue(b) ELSE DigitsValue(b)

(***************************************************************************)
(* datetime.date: a date is its number of days since 1970-01-01            *)
(***************************************************************************)
IsLeap(y) == (y % 4 = 0 /\ y % 100 # 0) \/ y % 400 = 0
DaysInMonth(y, m) ==
    IF m = 2 THEN (IF IsLeap(y) THEN 29 ELSE 28)
    ELSE IF m \in {4, 6, 9, 11} THEN 30 ELSE 31
ValidDate(y, m, d) == y >= 1970 /\ m \in 1..12 /\ d >= 1 /\ d <= DaysInMonth(y, m)

\* date(y, m, d)
DateOf(y, m, d) ==
    LET yy == IF m <= 2 THEN y - 1 ELSE y
        era == yy \div 400
        yoe == yy - era * 400
        mp == (m + 9) % 12
        doy == (153 * mp + 2) \div 5 + d - 1
        doe == yoe * 365 + yoe \div 4 - yoe \div 100 + doy
    IN era * 146097 + doe - 719468

\* .year, .month, .day: the inverse of DateOf, step by step (era: 400 years,
\* doe: day of the era, yoe: year of the era, doy: day of the year from 1 March,
\* mp: month from March)
CivilOfMonth(y, m, d) ==
    [year |-> y + (IF m <= 2 THEN 1 ELSE 0), month |-> m, day |-> d]
CivilOfMp(y, doy, mp) ==
    CivilOfMonth(y, IF mp < 10 THEN mp + 3 ELSE mp - 9, doy - (153 * mp + 2) \div 5 + 1)
CivilOfDoy(y, doy) == CivilOfMp(y, doy, (5 * doy + 2) \div 153)
CivilOfYoe(era, doe, yoe) ==
    CivilOfDoy(yoe + era * 400, doe - (365 * yoe + yoe \div 4 - yoe \div 100))
CivilOfDoe(era, doe) ==
    CivilOfYoe(era, doe,
               (doe - doe \div 1460 + doe \div 36524 - doe \div 146096) \div 365)
CivilOfEra(zz, era) == CivilOfDoe(era, zz - era * 146097)
Civil(z) == CivilOfEra(z + 719468, (z + 719468) \div 146097)

\* date.weekday(): Monday is 0 (1970-01-01 was a Thursday)
weekday(z) == (z + 3) % 7

\* date.strftime('%Y-%m-%d')
FormatCivil(c) == Pad4(c.year) \o <<"-">> \o Pad2(c.month) \o <<"-">> \o Pad2(c.day)
strftime_date(z) == FormatCivil(Civil(z))

\* time.strftime('%H:%M:%S')
strftime_time(h, m, s) == Pad2(h) \o <<":">> \o Pad2(m) \o <<":">> \o Pad2(s)

(***************************************************************************)
(* Natural-language normalizer (agent/tools.py)                            *)
(***************************************************************************)
W_today == <<"t", "o", "d", "a", "y">>
W_tomorrow == <<"t", "o", "m", "o", "r", "r", "o", "w">>
W_weekend == <<"w", "e", "e", "k", "e", "n", "d">>
W_saturday == <<"s", "a", "t", "u", "r", "d", "a", "y">>
W_sunday == <<"s", "u", "n", "d", "a", "y">>
W_next == <<"n", "e", "x", "t">>
W_friday == <<"f", "r", "i", "d", "a", "y">>
W_week == <<"w", "e", "e", "k">>
W_pm == <<"p", "m">>
W_am == <<"a", "m">>
W_dinner == <<"d", "i", "n", "n", "e", "r">>

\* dateutil's parser.parse(date_str, fuzzy=True).date(), for the texts the model
\* feeds it: the ISO form YYYY-MM-DD of a valid date parses to that date, every
\* other text raises.
dateutil_parse_date(s) ==
    IF /\ Len(s) = 10
       /\ s[5] = "-" /\ s[8] = "-"
       /\ AllDigits(SubSeq(s, 1, 4)) /\ AllDigits(SubSeq(s, 6, 7))
       /\ AllDigits(SubSeq(s, 9, 10))
       /\ ValidDate(DigitsValue(SubSeq(s, 1, 4)), DigitsValue(SubSeq(s, 6, 7)),
                    DigitsValue(SubSeq(s, 9, 10)))
    THEN [raised |-> FALSE,
          date |-> DateOf(DigitsValue(SubSeq(s, 1, 4)), DigitsValue(SubSeq(s, 6, 7)),
                          DigitsValue(SubSeq(s, 9, 10)))]
    ELSE [raised |-> TRUE]

\* dateutil's parser.parse(time_str, fuzzy=True).time(), for the texts the model
\* feeds it: the first integer is the hour on the 12-hour clock, ":MM" right
\* after it the minutes; 12am is 00, 12pm is 12; a text with no hour, an hour
\* above 12 or minutes above 59 raises.
TwelveHour(h, mins, isPm) ==
    IF h > 12 \/ mins > 59 THEN [raised |-> TRUE]
    ELSE [raised |-> FALSE,
          hour |-> IF isPm THEN (IF h = 12 THEN 12 ELSE h + 12)
                   ELSE (IF h = 12 THEN 0 ELSE h),
          minute |-> mins]
\* e: the index of the hour's last digit
MinutesAfter(s, e) ==
    IF /\ Len(s) >= e + 3
       /\ s[e + 1] = ":"
       /\ IsDigit(s[e + 2]) /\ IsDigit(s[e + 3])
    THEN DigitsValue(SubSeq(s, e + 2, e + 3))
    ELSE 0
TimeFromHourAt(s, b) ==
    TwelveHour(DigitsValue(DigitRunFrom(s, b)), MinutesAfter(s, DigitRunEnd(s, b)),
               Contains(s, W_pm))
dateutil_parse_time(s) ==
    IF FirstDigitRun(s) = NoneT THEN [raised |-> TRUE]
    ELSE TimeFromHourAt(s, FirstDigitIndex(s))

\* variant of DaysAhead: today counts when it has weekday w
DaysAhead_Today(w, t) ==
    IF w - weekday(t) < 0 THEN w - weekday(t) + 7 ELSE w - weekday(t)
\* the days from today to the next day with weekday w, never 0
DaysAhead(w, t) ==
    IF w - weekday(t) <= 0 THEN w - weekday(t) + 7 ELSE w - weekday(t)

\* the post-parse correction of _parse_date: d the parsed date, cd and ct the
\* year, month and day of d and of today
CorrectPast(d, t, cd, ct) ==
    IF ~(/\ d < t
         /\ \/ cd.month < ct.month
            \/ cd.month = ct.month /\ cd.day < ct.day)
    THEN strftime_date(d)
    ELSE IF ValidDate(ct.year + 1, cd.month, cd.day)     \* replace(year=...)
    THEN strftime_date(DateOf(ct.year + 1, cd.month, cd.day))
    ELSE strftime_date(t + 1)                            \* replace raises, caught

\* the absolute branch of _parse_date: p is what dateutil's parser did
ParsedDate(p, t) ==
    IF p.raised THEN strftime_date(t + 1)
    ELSE CorrectPast(p.date, t, Civil(p.date), Civil(t))

\* variant of RelativeDate: 'next' with 'week' is looked for before the
\* weekdays
RelativeDate_WeekFirst(date_str, l, t) ==
    IF Contains(l, W_today) THEN strftime_date(t)
    ELSE IF Contains(l, W_tomorrow) THEN strftime_date(t + 1)
    ELSE IF Contains(l, W_next) /\ Contains(l, W_week) THEN strftime_date(t + 7)
    ELSE IF Contains(l, W_weekend) \/ Contains(l, W_saturday)
    THEN strftime_date(t + DaysAhead(5, t))
    ELSE IF Contains(l, W_sunday) THEN strftime_date(t + DaysAhead(6, t))
    ELSE IF Contains(l, W_next) /\ Contains(l, W_friday)
    THEN strftime_date(t + DaysAhead(4, t))
    ELSE ParsedDate(dateutil_parse_date(date_str), t)

\* the relative branches of _parse_date, on the lower-cased text l
RelativeDate(date_str, l, t) ==
    IF Contains(l, W_today) THEN strftime_date(t)
    ELSE IF Contains(l, W_tomorrow) THEN strftime_date(t + 1)
    ELSE IF Contains(l, W_weekend) \/ Contains(l, W_saturday)
    THEN strftime_date(t + DaysAhead(5, t))
    ELSE IF Contains(l, W_sunday) THEN strftime_date(t + DaysAhead(6, t))
    ELSE IF Contains(l, W_next) /\ Contains(l, W_friday)
    THEN strftime_date(t + DaysAhead(4, t))
    ELSE IF Contains(l, W_next) /\ Contains(l, W_week) THEN strftime_date(t + 7)
    ELSE ParsedDate(dateutil_parse_date(date_str), t)

\* variant of _parse_date: the expression is passed on as it was given
parse_date_unparsed(date_str, t) == date_str
\* BookingTools._parse_date; t is datetime.now().date()
_parse_date(date_str, t) ==
    IF date_str = NoneT THEN strftime_date(t + 1)    \* .lower() raises, caught
    ELSE RelativeDate(date_str, Lower(date_str), t)

DefaultTime == <<"1", "9", ":", "0", "0", ":", "0", "0">>

\* the am/pm branch of _parse_time: p is what dateutil's parser did
TwelveHourTime(p) ==
    IF p.raised THEN DefaultTime ELSE strftime_time(p.hour, p.minute, 0)

\* the colon branch of _parse_time; NoneT is Python's None (no return statement
\* for other than two or three parts)
ColonTime(parts) ==
    IF Len(parts) = 2
    THEN ZFill2(parts[1]) \o <<":">> \o ZFill2(parts[2]) \o <<":", "0", "0">>
    ELSE IF Len(parts) = 3
    THEN ZFill2(parts[1]) \o <<":">> \o ZFill2(parts[2]) \o <<":">> \o ZFill2(parts[3])
    ELSE NoneT

\* variant of HourTime: the hour as written
HourTime_AsWritten(s, h) == Pad2(h) \o <<":", "0", "0", ":", "0", "0">>
\* the hour branch of _parse_time: h is the first integer of the text s
HourTime(s, h) ==
    Pad2(IF h < 12 /\ Contains(s, W_dinner) THEN h + 12 ELSE h)
    \o <<":", "0", "0", ":", "0", "0">>

\* _parse_time on the lower-cased, stripped text s
TimeOf(s) ==
    IF Contains(s, W_pm) \/ Contains(s, W_am) THEN TwelveHourTime(dateutil_parse_time(s))
    ELSE IF Contains(s, <<":">>) THEN ColonTime(Split(s, ":"))
    ELSE IF FirstDigitRun(s) = NoneT THEN DefaultTime    \* .group() raises, caught
    ELSE HourTime(s, DigitsValue(FirstDigitRun(s)))

\* BookingTools._parse_time
_parse_time(time_str) ==
    IF time_str = NoneT THEN DefaultTime    \* .lower() raises, caught
    ELSE TimeOf(Strip(Lower(time_str)))

(***************************************************************************)
(* Reservation API gateway (agent/api_client.py)                           *)
(*                                                                         *)
(* What the network does with one request is an outcome h:                 *)
(*   [kind |-> "ok", ...]            a 2xx response with a JSON body       *)
(*   [kind |-> "status", status |-> n]  a non-2xx response                 *)
(*   [kind |-> "neterror", text |-> t]  no response (connection, timeout)  *)
(* A gateway method returns [raised, value, error, sent]: the decoded body *)
(* or the exception's text, and whether a request went out.                *)
(***************************************************************************)
\* str() of httpx.HTTPStatusError
StatusText(status) == IF status = 404 THEN "HTTP 404" ELSE "HTTP 500"

Returned(v, sent) == [raised |-> FALSE, value |-> v, error |-> NONE, sent |-> sent]
Raised(e) == [raised |-> TRUE, value |-> NoneEnv, error |-> e, sent |-> TRUE]

\* response.raise_for_status(); response.json(), and the except clauses that
\* re-raise
Transport(h, body) ==
    IF h.kind = "ok" THEN Returned(body, TRUE)
    ELSE IF h.kind = "status" THEN Raised(StatusText(h.status))
    ELSE Raised(h.text)

\* BookingAPIClient.check_availability
api_check_availability(visit_date, party_size, h) ==
    Transport(h, [available_slots |-> IF h.kind = "ok" THEN h.slots ELSE <<>>])

\* BookingAPIClient.create_booking: the service answers with the booking it made
api_create_booking(visit_date, visit_time, party_size, customer_info, special_requests, h) ==
    Transport(h, [booking_reference |-> IF h.kind = "ok" THEN h.reference ELSE NoneT,
                  visit_date |-> visit_date,
                  visit_time |-> visit_time,
                  party_size |-> party_size,
                  special_requests |-> special_requests])

\* variant of api_get_booking: a 404 raises like every other status
api_get_booking_Raise(booking_reference, h) ==
    Transport(h, [booking_reference |-> booking_reference])
\* BookingAPIClient.get_booking: a 404 is a null result, not a failure
api_get_booking(booking_reference, h) ==
    IF h.kind = "status" /\ h.status = 404 THEN Returned(NoneEnv, TRUE)
    ELSE Transport(h, [booking_reference |-> booking_reference])

\* the fields BookingAPIClient.update_booking puts in the PATCH body
UpdateData(visit_date, visit_time, party_size, special_requests) ==
    LET given == [VisitDate |-> visit_date, VisitTime |-> visit_time,
                  PartySize |-> party_size, SpecialRequests |-> special_requests]
        keys == {k \in {"VisitDate", "VisitTime", "PartySize"} : Truthy(given[k])}
                \cup (IF special_requests # NoneT THEN {"SpecialRequests"} ELSE {})
    IN [k \in keys |-> given[k]]

\* variant of api_update_booking: the request goes out with an empty body too
api_update_booking_Send(booking_reference, visit_date, visit_time, party_size, special_requests, h) ==
    Transport(h, [updates |-> UpdateData(visit_date, visit_time, party_size,
                                         special_requests)])

\* BookingAPIClient.update_booking: nothing to change, nothing sent
api_update_booking(booking_reference, visit_date, visit_time, party_size, special_requests, h) ==
    LET data == UpdateData(visit_date, visit_time, party_size, special_requests)
    IN IF data = EmptyDict THEN Returned([message |-> "No updates provided"], FALSE)
       ELSE Transport(h, [updates |-> data])

\* BookingAPIClient.cancel_booking
api_cancel_booking(booking_reference, cancellation_reason_id, h) ==
    Transport(h, [booking_reference |-> booking_reference,
                  cancellation_reason_id |-> cancellation_reason_id])

(***************************************************************************)
(* Booking operation facade (agent/tools.py)                               *)
(*                                                                         *)
(* A facade method returns [envelope, call, exc]: the operation envelope,  *)
(* the gateway call it made (its arguments and what it did) and the text   *)
(* of the exception it caught (NONE when none was raised).                 *)
(***************************************************************************)
\* variant of Failure: the envelope says only that the operation failed
Failure_NoText(e, msg) == [success |-> FALSE, error |-> NONE, message |-> msg]
\* the envelope of the except clause of a facade method
Failure(e, msg) == [success |-> FALSE, error |-> e, message |-> msg]

\* envelope.get(k, default) for the error and message keys
EnvGet(env, k, default) == IF k \in DOMAIN env THEN env[k] ELSE default

\* prompts.format_availability_slots: the HH:MM of the available slots
RECURSIVE format_availability_slots(_)
format_availability_slots(slots) ==
    IF slots = <<>> THEN <<>>
    ELSE (IF Head(slots).available THEN <<SubSeq(Head(slots).time, 1, 5)>> ELSE <<>>)
         \o format_availability_slots(Tail(slots))

\* what a facade method returns
Facade(envelope, call, exc) == [envelope |-> envelope, call |-> call, exc |-> exc]

\* str() of the AttributeError of result.get(...) on a null result
NoneTypeGetText == "'NoneType' object has no attribute 'get'"
\* the text of the exception a facade method catches after the gateway call r
\* when it reads the result with .get (NONE: nothing raised)
CaughtText(r) ==
    IF r.raised THEN r.error ELSE IF r.value = NoneEnv THEN NoneTypeGetText ELSE NONE

\* BookingTools.check_availability, after the gateway call r
CheckAvailabilityEnvelope(formatted_date, party_size, r) ==
    Facade(IF CaughtText(r) # NONE
           THEN Failure(CaughtText(r), "Failed to check availability")
           ELSE [success |-> TRUE,
                 date |-> formatted_date,
                 party_size |-> party_size,
                 formatted_slots |->
                     format_availability_slots(EnvGet(r.value, "available_slots", <<>>)),
                 raw_slots |-> EnvGet(r.value, "available_slots", <<>>),
                 message |-> "Found available slots"],
           [op |-> "check_availability", visit_date |-> formatted_date,
            party_size |-> party_size, sent |-> r.sent, raised |-> r.raised,
            value |-> r.value],
           CaughtText(r))
CheckAvailabilityOn(formatted_date, party_size, h) ==
    CheckAvailabilityEnvelope(formatted_date, party_size,
                              api_check_availability(formatted_date, party_size, h))
\* BookingTools.check_availability
tools_check_availability(date_str, party_size, t, h) ==
    CheckAvailabilityOn(_parse_date(date_str, t), party_size, h)

\* BookingTools.create_booking, after the gateway call r
CreateBookingEnvelope(formatted_date, formatted_time, party_size, r) ==
    Facade(IF CaughtText(r) # NONE
           THEN Failure(CaughtText(r), "Failed to create booking")
           ELSE [success |-> TRUE,
                 booking_reference |-> EnvGet(r.value, "booking_reference", NoneT),
                 booking_details |-> r.value,
                 message |-> "Booking confirmed with reference"],
           [op |-> "create_booking", visit_date |-> formatted_date,
            visit_time |-> formatted_time, party_size |-> party_size,
            sent |-> r.sent, raised |-> r.raised, value |-> r.value],
           CaughtText(r))
CreateBookingOn(formatted_date, formatted_time, party_size, customer_info, special_requests, h) ==
    CreateBookingEnvelope(formatted_date, formatted_time, party_size,
                          api_create_booking(formatted_date, formatted_time, party_size,
                                             customer_info, special_requests, h))
\* BookingTools.create_booking
tools_create_booking(date_str, time_str, party_size, customer_info, special_requests, t, h) ==
    CreateBookingOn(_parse_date(date_str, t), _parse_time(time_str), party_size,
                    customer_info, special_requests, h)

\* BookingTools.get_booking, after the gateway call r
GetBookingEnvelope(booking_reference, r) ==
    Facade(IF r.raised THEN Failure(r.error, "Failed to retrieve booking")
           ELSE IF r.value \notin {NoneEnv, EmptyDict}    \* if result:
           THEN [success |-> TRUE,
                 booking_details |-> r.value,
                 formatted_details |-> r.value,
                 message |-> "Booking found"]
           ELSE [success |-> FALSE,
                 message |-> "No booking found with reference",
                 reference |-> booking_reference],
           [op |-> "get_booking", booking_reference |-> booking_reference,
            sent |-> r.sent, raised |-> r.raised, value |-> r.value],
           r.error)
\* BookingTools.get_booking
tools_get_booking(booking_reference, h) ==
    GetBookingEnvelope(booking_reference, api_get_booking(booking_reference, h))

\* BookingTools.update_booking, after the gateway call r
UpdateBookingEnvelope(booking_reference, formatted_date, formatted_time, r) ==
    Facade(IF CaughtText(r) # NONE
           THEN Failure(CaughtText(r), "Failed to update booking")
           ELSE [success |-> TRUE,
                 booking_reference |-> booking_reference,
                 updates |-> EnvGet(r.value, "updates", EmptyDict),
                 message |-> "Booking has been updated"],
           [op |-> "update_booking", booking_reference |-> booking_reference,
            visit_date |-> formatted_date, visit_time |-> formatted_time,
            sent |-> r.sent, raised |-> r.raised, value |-> r.value],
           CaughtText(r))
UpdateBookingOn(booking_reference, formatted_date, formatted_time, party_size, special_requests, h) ==
    UpdateBookingEnvelope(booking_reference, formatted_date, formatted_time,
                          api_update_booking(booking_reference, formatted_date,
                                             formatted_time, party_size,
                                             special_requests, h))
\* BookingTools.update_booking
tools_update_booking(booking_reference, date_str, time_str, party_size, special_requests, t, h) ==
    UpdateBookingOn(booking_reference,
                    IF Truthy(date_str) THEN _parse_date(date_str, t) ELSE NoneT,
                    IF Truthy(time_str) THEN _parse_time(time_str) ELSE NoneT,
                    party_size, special_requests, h)

\* reason_map.get(reason.lower(), 1) for the default reason "Customer request"
CustomerRequestId == 1

\* BookingTools.cancel_booking, after the gateway call r
CancelBookingEnvelope(booking_reference, r) ==
    Facade(IF r.raised THEN Failure(r.error, "Failed to cancel booking")
           ELSE [success |-> TRUE,
                 booking_reference |-> booking_reference,
                 message |-> "Booking has been cancelled"],
           [op |-> "cancel_booking", booking_reference |-> booking_reference,
            cancellation_reason_id |-> CustomerRequestId, sent |-> r.sent,
            raised |-> r.raised, value |-> r.value],
           r.error)
\* BookingTools.cancel_booking, called with the default reason
tools_cancel_booking(booking_reference, h) ==
    CancelBookingEnvelope(booking_reference,
                          api_cancel_booking(booking_reference, CustomerRequestId, h))

(***************************************************************************)
(* Conversation state (agent/state.py) and messages                        *)
(***************************************************************************)
\* state.initialize_state
initialize_state(session_id) ==
    [messages |-> <<>>,
     current_booking_reference |-> NoneT,
     intent |-> NONE,
     entities |-> EmptyDict,
     last_api_response |-> NoneEnv,
     session_id |-> session_id,
     user_name |-> NONE,
     pending_booking |-> EmptyDict,
     error |-> NONE]

HumanMessage(content) == [role |-> "human", content |-> content]
AIMessage(content) == [role |-> "ai", content |-> content]

\* state["messages"].append(m)
AppendMessage(s, m) == [s EXCEPT !.messages = Append(@, m)]

\* the fixed text of respond_node's and process_message's except clauses
FallbackApology == [kind |-> "fallback_apology"]
\* "I apologize, but I encountered an issue: {error}. Please try again ..."
ErrorApology(error) == [kind |-> "error_apology", error |-> error]

(***************************************************************************)
(* Nodes of the graph (agent/agent_graph.py).  A node operator returns     *)
(* [state, calls, exc]: the state it leaves, the gateway calls it made and *)
(* the text of the exception raised under it (NONE when none).             *)
(***************************************************************************)
NodeResult(s, cs, e) == [state |-> s, calls |-> cs, exc |-> e]

\* str.strip() with no argument: blanks, tabs and line ends go
PyWhitespace == {" ", "\t", "\n", "\r"}
RECURSIVE LStripWs(_)
LStripWs(s) == IF s # <<>> /\ Head(s) \in PyWhitespace THEN LStripWs(Tail(s)) ELSE s
RECURSIVE RStripWs(_)
RStripWs(s) ==
    IF s # <<>> /\ Last(s) \in PyWhitespace THEN RStripWs(SubSeq(s, 1, Len(s) - 1)) ELSE s
StripWs(s) == RStripWs(LStripWs(s))

\* s.startswith(p)
StartsWith(s, p) == Len(s) >= Len(p) /\ SubSeq(s, 1, Len(p)) = p

\* s.replace(w, ''): every occurrence of w goes, from the left
RECURSIVE RemoveAll(_, _)
RemoveAll(s, w) ==
    IF Len(s) < Len(w) THEN s
    ELSE IF StartsWith(s, w) THEN RemoveAll(SubSeq(s, Len(w) + 1, Len(s)), w)
    ELSE <<Head(s)>> \o RemoveAll(Tail(s), w)

\* s.split(c, 1), c one character: one part without c, else the text before
\* the first c and the text after it
RECURSIVE SplitOnceAcc(_, _, _)
SplitOnceAcc(s, c, cur) ==
    IF s = <<>> THEN <<cur>>
    ELSE IF Head(s) = c THEN <<cur, Tail(s)>>
    ELSE SplitOnceAcc(Tail(s), c, Append(cur, Head(s)))
SplitOnce(s, c) == SplitOnceAcc(s, c, <<>>)

P_Intent == <<"I", "n", "t", "e", "n", "t", ":">>
P_Dash == <<"-", " ">>

\* what _parse_extraction returns
Parsed(intent, entities) == [intent |-> intent, entities |-> entities]

\* entities[key] = value
SetItem(d, key, value) ==
    [k \in DOMAIN d \cup {key} |-> IF k = key THEN value ELSE d[k]]

\* the entity line of _parse_extraction: parts is line[2:].split(':', 1)
EntityLine(parts, p) ==
    IF Len(parts) = 2
    THEN Parsed(p.intent, SetItem(p.entities, StripWs(parts[1]), StripWs(parts[2])))
    ELSE p

\* the body of the loop of _parse_extraction, on the stripped line
ParseLine(line, p) ==
    IF StartsWith(line, P_Intent)
    THEN Parsed(Lower(StripWs(RemoveAll(line, P_Intent))), p.entities)
    ELSE IF StartsWith(line, P_Dash)
    THEN EntityLine(SplitOnce(SubSeq(line, 3, Len(line)), ":"), p)
    ELSE p

\* the loop of _parse_extraction
RECURSIVE ParseLines(_, _)
ParseLines(lines, p) ==
    IF lines = <<>> THEN p
    ELSE ParseLines(Tail(lines), ParseLine(StripWs(Head(lines)), p))

\* RestaurantBookingAgent._parse_extraction; a reply that is no text (NoneT)
\* makes .strip() raise, which the except clause answers with (None, {})
_parse_extraction(extraction_text) ==
    IF extraction_text = NoneT THEN Parsed(NoneT, EmptyDict)
    ELSE ParseLines(Split(StripWs(extraction_text), "\n"), Parsed(NoneT, EmptyDict))

\* RestaurantBookingAgent.process_input; llm is what the completion call for
\* the extraction prompt did: [raised |-> TRUE, error] or, parsed by
\* _parse_extraction, [raised |-> FALSE, intent, entities]
process_input(s, llm) ==
    IF s.messages = <<>> THEN NodeResult(s, <<>>, NONE)
    ELSE IF Last(s.messages).role # "human" THEN NodeResult(s, <<>>, NONE)
    ELSE IF llm.raised THEN NodeResult([s EXCEPT !.error = llm.error], <<>>, llm.error)
    ELSE NodeResult([s EXCEPT !.intent = llm.intent, !.entities = llm.entities],
                    <<>>, NONE)

\* where route_intent goes, and the state it leaves
RouteTo(next, s) == [next |-> next, state |-> s]

\* variant of RouteCheckAvailability: one of the two fields is enough
RouteCheckAvailability_Either(s) ==
    IF Truthy(Get(s.entities, "date")) \/ Truthy(Get(s.entities, "party_size"))
    THEN RouteTo("check_availability", s)
    ELSE RouteTo("conversation", s)

\* route_intent for intent check_availability
RouteCheckAvailability(s) ==
    IF Truthy(Get(s.entities, "date")) /\ Truthy(Get(s.entities, "party_size"))
    THEN RouteTo("check_availability", s)
    ELSE RouteTo("conversation", s)

\* variant of RouteCreateBooking: a partial request is not merged
RouteCreateBooking_NoMerge(s) ==
    IF /\ Truthy(Get(s.entities, "date"))
       /\ Truthy(Get(s.entities, "time"))
       /\ Truthy(Get(s.entities, "party_size"))
    THEN RouteTo("create_booking", s)
    ELSE RouteTo("conversation", s)

\* variant of RouteCreateBooking: every request short of its three fields is
\* merged
RouteCreateBooking_MergeAny(s) ==
    IF /\ Truthy(Get(s.entities, "date"))
       /\ Truthy(Get(s.entities, "time"))
       /\ Truthy(Get(s.entities, "party_size"))
    THEN RouteTo("create_booking", s)
    ELSE RouteTo("conversation", [s EXCEPT !.pending_booking = Update(@, s.entities)])

\* variant of RouteCreateBooking: the fields collected in pending_booking
\* count towards the three
RouteCreateBooking_Pending(s) ==
    IF /\ Truthy(Get(Update(s.pending_booking, s.entities), "date"))
       /\ Truthy(Get(Update(s.pending_booking, s.entities), "time"))
       /\ Truthy(Get(Update(s.pending_booking, s.entities), "party_size"))
    THEN RouteTo("create_booking", s)
    ELSE IF Truthy(Get(s.entities, "date")) \/ Truthy(Get(s.entities, "party_size"))
    THEN RouteTo("conversation", [s EXCEPT !.pending_booking = Update(@, s.entities)])
    ELSE RouteTo("conversation", s)

\* route_intent for intent create_booking: the partial request updates
\* pending_booking in place
RouteCreateBooking(s) ==
    IF /\ Truthy(Get(s.entities, "date"))
       /\ Truthy(Get(s.entities, "time"))
       /\ Truthy(Get(s.entities, "party_size"))
    THEN RouteTo("create_booking", s)
    ELSE IF Truthy(Get(s.entities, "date")) \/ Truthy(Get(s.entities, "party_size"))
    THEN RouteTo("conversation", [s EXCEPT !.pending_booking = Update(@, s.entities)])
    ELSE RouteTo("conversation", s)

\* variant of RouteByReference: the stored reference is not looked at
RouteByReference_EntityOnly(s) ==
    IF Truthy(Get(s.entities, "booking_reference"))
    THEN RouteTo(s.intent, s)
    ELSE RouteTo("conversation", s)

\* route_intent for the intents get_booking, update_booking, cancel_booking
RouteByReference(s) ==
    IF \/ Truthy(Get(s.entities, "booking_reference"))
       \/ Truthy(s.current_booking_reference)
    THEN RouteTo(s.intent, s)
    ELSE RouteTo("conversation", s)

\* RestaurantBookingAgent.route_intent: the next node, and the state
route_intent(s) ==
    IF ~TruthyS(s.intent) THEN RouteTo("respond", s)
    ELSE IF s.intent = "check_availability" THEN RouteCheckAvailability(s)
    ELSE IF s.intent = "create_booking" THEN RouteCreateBooking(s)
    ELSE IF s.intent \in {"get_booking", "update_booking", "cancel_booking"}
    THEN RouteByReference(s)
    ELSE RouteTo("conversation", s)

\* variant of NodeOf: the conversation edge names a node the graph does not
\* have
NodeOf_Nowhere(next) == IF next = "conversation" THEN "conversation" ELSE next

\* variant of NodeOf: the conversation edge leads back to intent extraction
NodeOf_Again(next) == IF next = "conversation" THEN "process_input" ELSE next

\* the edges of _build_graph out of process_input
NodeOf(next) == IF next = "conversation" THEN "handle_conversation" ELSE next

\* str() of the exception int(v) raises
IntErrorText(v) ==
    IF v = NoneT THEN "int() argument must be a string" ELSE "invalid literal for int()"

\* variant of NodeRaised: the except clause does not record the error
NodeRaised_Silent(s, e) == NodeResult(s, <<>>, e)

\* a node's except clause: state["error"] = str(e)
NodeRaised(s, e) == NodeResult([s EXCEPT !.error = e], <<>>, e)

\* variant of Failed: the facade is called a second time after a failure
Failed_Again(s, r, key, default) ==
    NodeResult([s EXCEPT !.last_api_response = r.envelope,
                         !.error = EnvGet(r.envelope, key, default)],
               <<r.call, r.call>>, r.exc)
\* a node after its facade call r: the envelope is kept, a failure's text
\* (envelope.get(key, default)) becomes the error
Failed(s, r, key, default) ==
    NodeResult([s EXCEPT !.last_api_response = r.envelope,
                         !.error = EnvGet(r.envelope, key, default)],
               <<r.call>>, r.exc)
\* a node after its successful facade call r, with the message it appends
Succeeded(s, r, content) ==
    NodeResult(AppendMessage([s EXCEPT !.last_api_response = r.envelope],
                             AIMessage(content)),
               <<r.call>>, r.exc)

CheckAvailabilityDone(s, r) ==
    IF r.envelope.success
    THEN Succeeded(s, r, [kind |-> "availability_results",
                          date |-> r.envelope.date,
                          party_size |-> r.envelope.party_size,
                          available_slots |-> r.envelope.formatted_slots])
    ELSE Failed(s, r, "error", "Failed to check availability")
\* RestaurantBookingAgent.check_availability_node
check_availability_node(s, t, h) ==
    IF ~IntOk(Get(s.entities, "party_size"))
    THEN NodeRaised(s, IntErrorText(Get(s.entities, "party_size")))
    ELSE CheckAvailabilityDone(
             s, tools_check_availability(Get(s.entities, "date"),
                                         IntVal(Get(s.entities, "party_size")), t, h))

\* customer_name.split(): the words between blanks
Words(name) == SelectSeq(Split(name, " "), LAMBDA w : w # <<>>)
RECURSIVE JoinWords(_)
JoinWords(ws) ==
    IF ws = <<>> THEN <<>>
    ELSE IF Len(ws) = 1 THEN ws[1]
    ELSE ws[1] \o <<" ">> \o JoinWords(Tail(ws))

NameInfo(parts) ==
    [FirstName |-> IF parts # <<>> THEN parts[1] ELSE <<>>,
     Surname |-> IF Len(parts) > 1 THEN JoinWords(Tail(parts)) ELSE <<>>]
InfoOrNone(info) == IF info = EmptyDict THEN NoneT ELSE info
\* the customer_info create_booking_node prepares, NoneT when it is empty
CustomerInfo(entities) ==
    InfoOrNone(
        Update(Update(IF Truthy(Get(entities, "customer_name"))
                      THEN NameInfo(Words(entities["customer_name"])) ELSE EmptyDict,
                      IF Truthy(Get(entities, "customer_email"))
                      THEN [Email |-> entities["customer_email"]] ELSE EmptyDict),
               IF Truthy(Get(entities, "customer_phone"))
               THEN [Mobile |-> entities["customer_phone"]] ELSE EmptyDict))

\* the success branch of create_booking_node: the reference is stored
StoreReference(s, reference) == [s EXCEPT !.current_booking_reference = reference]

CreateBookingDone(s, r) ==
    IF r.envelope.success
    THEN Succeeded(StoreReference(s, r.envelope.booking_reference), r,
                   [kind |-> "booking_created",
                    date |-> r.envelope.booking_details.visit_date,
                    time |-> r.envelope.booking_details.visit_time,
                    party_size |-> r.envelope.booking_details.party_size,
                    reference |-> r.envelope.booking_reference,
                    special_requests |-> r.envelope.booking_details.special_requests])
    ELSE Failed(s, r, "error", "Failed to create booking")
\* RestaurantBookingAgent.create_booking_node
create_booking_node(s, t, h) ==
    IF ~IntOk(Get(s.entities, "party_size"))
    THEN NodeRaised(s, IntErrorText(Get(s.entities, "party_size")))
    ELSE CreateBookingDone(
             s, tools_create_booking(Get(s.entities, "date"), Get(s.entities, "time"),
                                     IntVal(Get(s.entities, "party_size")),
                                     CustomerInfo(s.entities),
                                     Get(s.entities, "special_requests"), t, h))

\* variant of BookingRef: the stored reference comes first
BookingRef_StoredFirst(s) ==
    Or(s.current_booking_reference, Get(s.entities, "booking_reference"))

\* entities.get("booking_reference") or state.get("current_booking_reference")
BookingRef(s) == Or(Get(s.entities, "booking_reference"), s.current_booking_reference)

\* the early return of get_, update_ and cancel_booking_node
NoReference(s) ==
    NodeResult([s EXCEPT !.error = "No booking reference provided"], <<>>, NONE)

GetBookingDone(s, r) ==
    IF r.envelope.success
    THEN Succeeded(s, r, [kind |-> "booking_details",
                          details |-> r.envelope.formatted_details])
    ELSE Failed(s, r, "message", "Booking not found")
\* RestaurantBookingAgent.get_booking_node
get_booking_node(s, h) ==
    IF ~Truthy(BookingRef(s)) THEN NoReference(s)
    ELSE GetBookingDone(s, tools_get_booking(BookingRef(s), h))

UpdateBookingDone(s, r) ==
    IF r.envelope.success
    THEN Succeeded(s, r, [kind |-> "booking_updated",
                          reference |-> BookingRef(s),
                          updates |-> r.envelope.updates])
    ELSE Failed(s, r, "error", "Failed to update booking")
\* RestaurantBookingAgent.update_booking_node
update_booking_node(s, t, h) ==
    IF ~Truthy(BookingRef(s)) THEN NoReference(s)
    ELSE UpdateBookingDone(
             s, tools_update_booking(BookingRef(s), Get(s.entities, "date"),
                                     Get(s.entities, "time"),
                                     Get(s.entities, "party_size"),
                                     Get(s.entities, "special_requests"), t, h))

\* variant of ClearReference: the reference is kept
ClearReference_Keep(r) == r

\* variant of ClearReference: the stored reference is cleared only when it is
\* the one that was cancelled
ClearReference_OwnOnly(r) ==
    IF r.calls[1].booking_reference = r.state.current_booking_reference
    THEN NodeResult([r.state EXCEPT !.current_booking_reference = NoneT], r.calls, r.exc)
    ELSE r

\* the success branch of cancel_booking_node: the reference is cleared
ClearReference(r) ==
    NodeResult([r.state EXCEPT !.current_booking_reference = NoneT], r.calls, r.exc)

CancelBookingDone(s, r) ==
    IF r.envelope.success
    THEN ClearReference(Succeeded(s, r, [kind |-> "booking_cancelled",
                                         reference |-> BookingRef(s)]))
    ELSE Failed(s, r, "error", "Failed to cancel booking")
\* RestaurantBookingAgent.cancel_booking_node
cancel_booking_node(s, h) ==
    IF ~Truthy(BookingRef(s)) THEN NoReference(s)
    ELSE CancelBookingDone(s, tools_cancel_booking(BookingRef(s), h))

\* RestaurantBookingAgent.handle_conversation_node; llm is what the completion
\* call did: [raised |-> TRUE, error] or [raised |-> FALSE, text]
handle_conversation_node(s, llm) ==
    IF llm.raised THEN NodeResult([s EXCEPT !.error = llm.error], <<>>, llm.error)
    ELSE NodeResult(AppendMessage(s, AIMessage([kind |-> "llm", text |-> llm.text])),
                    <<>>, NONE)

\* RestaurantBookingAgent.respond_node
respond_node(s, llm) ==
    IF TruthyS(s.error)
    THEN NodeResult([AppendMessage(s, AIMessage(ErrorApology(s.error)))
                     EXCEPT !.error = NONE],
                    <<>>, NONE)
    ELSE IF s.messages = <<>> \/ Last(s.messages).role # "ai"
    THEN IF llm.raised
         THEN NodeResult(AppendMessage(s, AIMessage(FallbackApology)), <<>>, llm.error)
         ELSE NodeResult(AppendMessage(s, AIMessage([kind |-> "llm", text |-> llm.text])),
                         <<>>, NONE)
    ELSE NodeResult(s, <<>>, NONE)

(***************************************************************************)
(* Inputs of the model                                                     *)
(***************************************************************************)
T_7pm == <<"7", "p", "m">>
T_4 == <<"4">>
T_many == <<"m", "a", "n", "y">>
R1 == <<"R", "1">>
R2 == <<"R", "2">>

\* the entity mapping with the given values; NoneT leaves the key out
Ent(date, time, party_size, booking_reference) ==
    LET given == [date |-> date, time |-> time, party_size |-> party_size,
                  booking_reference |-> booking_reference]
    IN [k \in {k \in DOMAIN given : given[k] # NoneT} |-> given[k]]

Extraction(intent, entities) ==
    [raised |-> FALSE, intent |-> intent, entities |-> entities]

\* What intent extraction yields in a turn of Spec: no intent, an intent that
\* is no booking operation, and for each booking intent entity sets with and
\* without the fields its row of the router asks for.
Extractions ==
    {Extraction(NONE, EmptyDict), Extraction("greeting", EmptyDict)}
    \cup {Extraction("check_availability", Ent(W_tomorrow, NoneT, p, NoneT)) :
            p \in {NoneT, T_4, T_many}}
    \cup {Extraction("create_booking", Ent(W_tomorrow, t, p, NoneT)) :
            t \in {NoneT, T_7pm}, p \in {NoneT, T_4}}
    \cup {Extraction("create_booking", Ent(NoneT, T_7pm, NoneT, NoneT)),
          Extraction("create_booking", Ent(W_tomorrow, T_7pm, T_many, NoneT))}
    \cup {Extraction("get_booking", Ent(NoneT, NoneT, NoneT, b)) : b \in {NoneT, R2}}
    \cup {Extraction("update_booking", Ent(NoneT, T_7pm, NoneT, NoneT)),
          Extraction("update_booking", Ent(NoneT, NoneT, NoneT, R2))}
    \cup {Extraction("cancel_booking", Ent(NoneT, NoneT, NoneT, b)) : b \in {NoneT, R2}}

\* str() of the exception a failed completion call raises
LLMErrors == {"llm unavailable"}
LLMFailures == {[raised |-> TRUE, error |-> e] : e \in LLMErrors}

\* what the completion call for the extraction prompt does
ExtractionOutcomes == Extractions \cup LLMFailures
\* what the completion call for a conversational reply does
ChatOutcomes == {[raised |-> FALSE, text |-> "reply"]} \cup LLMFailures

Slots == <<[time |-> DefaultTime, available |-> TRUE],
           [time |-> <<"1", "2", ":", "0", "0", ":", "0", "0">>, available |-> FALSE]>>

\* what the network does with one request of the gateway; the body of a 2xx
\* response to create carries the booking's reference ("Booking confirmation
\* with reference", BookingAPIClient.create_booking)
HttpOk == {[kind |-> "ok", reference |-> r, slots |-> Slots] : r \in {R1, R2}}
HttpStatus(n) == [kind |-> "status", status |-> n]
HttpNetError == [kind |-> "neterror", text |-> ""]
HttpOutcomes(op) ==
    IF op = "create_booking" THEN HttpOk \cup {HttpStatus(500), HttpNetError}
    ELSE IF op = "get_booking"
    THEN {[kind |-> "ok", reference |-> R1, slots |-> Slots],
          HttpStatus(404), HttpStatus(500)}
    ELSE {[kind |-> "ok", reference |-> R1, slots |-> Slots], HttpStatus(500)}

UserMessages == {"message"}
SessionId == "s1"
\* 2024-03-14, a Thursday
Thursday == DateOf(2024, 3, 14)

(***************************************************************************)
(* History of the session, for the properties that span turns              *)
(***************************************************************************)
\* the entity mapping carries a non-empty value for key k: entities.get(k)
\* is true
Present(entities, k) == Truthy(Get(entities, k))

\* no turn yet
NoHistory ==
    [created |-> NoneT,     \* the reference a successful create_booking stored,
                            \* while no create or cancel node has run since
     gap |-> 0,             \* turns finished since that create_booking
     partial |-> TRUE,      \* every turn so far extracted create_booking without
                            \* all three of date, time and party_size
     supplied |-> EmptyDict,    \* latest value of every entity of those turns
     merged |-> EmptyDict]      \* the same, of the turns with date or party_size

\* intent extraction did not raise in the current turn
Extracted == trace # <<>> /\ trace[1].node = "process_input" /\ trace[1].exc = NONE

\* the operation node that ran in the current turn ("none" before it ran and
\* in a turn routed to respond)
OpNode == IF Len(trace) >= 3 THEN trace[3].node ELSE "none"

\* the gateway call of the current turn returned
GatewayReturned(op) == calls # <<>> /\ calls[1].op = op /\ ~calls[1].raised

AllThree(entities) ==
    Present(entities, "date") /\ Present(entities, "time")
    /\ Present(entities, "party_size")

PartialCreateTurn ==
    Extracted /\ state.intent = "create_booking" /\ ~AllThree(state.entities)

\* the entities of e over those of d: the latest value of every key
Latest(d, e) ==
    [k \in DOMAIN d \cup DOMAIN e |-> IF k \in DOMAIN e THEN e[k] ELSE d[k]]

\* hist after the current turn, taken when respond runs
FoldTurn ==
    [created |-> IF GatewayReturned("create_booking")
                 THEN calls[1].value.booking_reference
                 ELSE IF OpNode \in {"create_booking", "cancel_booking"} THEN NoneT
                 ELSE hist.created,
     gap |-> IF GatewayReturned("create_booking") THEN 0 ELSE hist.gap + 1,
     partial |-> hist.partial /\ PartialCreateTurn,
     supplied |-> IF PartialCreateTurn THEN Latest(hist.supplied, state.entities)
                  ELSE hist.supplied,
     merged |-> IF /\ PartialCreateTurn
                   /\ \/ Present(state.entities, "date")
                      \/ Present(state.entities, "party_size")
                THEN Latest(hist.merged, state.entities)
                ELSE hist.merged]

(***************************************************************************)
(* One session's turns: process_message and the graph of _build_graph      *)
(***************************************************************************)
\* no function is applied on its own
NoCall == [fn |-> "none"]
NoPure == arg = NoCall /\ out = NoCall
\* and no request is served
NoStore ==
    /\ heap = <<>>
    /\ sessions = EmptyDict
    /\ chats = <<>>
    /\ websocket = NoCall
    /\ cleared = NoCall
    /\ ghost = NoCall

Init ==
    /\ state = initialize_state(SessionId)
    /\ pc = "idle"
    /\ turn = 0
    /\ today = Thursday
    /\ pre = initialize_state(SessionId)
    /\ trace = <<>>
    /\ calls = <<>>
    /\ hist = NoHistory
    /\ prehist = NoHistory
    /\ NoPure
    /\ NoStore

Ran(node, r) == [node |-> node, exc |-> r.exc]

\* process_message: the user's message is appended and the graph is entered
StartTurn ==
    /\ pc = "idle"
    /\ turn < MaxTurns
    /\ \E m \in UserMessages :
          state' = AppendMessage(state, HumanMessage(m))
    /\ pc' = "process_input"
    /\ turn' = turn + 1
    /\ pre' = state
    /\ prehist' = hist
    /\ trace' = <<>>
    /\ calls' = <<>>
    /\ UNCHANGED <<today, hist, purevars, storevars>>

\* a node that ran with result r, and the node that runs next
Node(name, r, next) ==
    /\ state' = r.state
    /\ calls' = calls \o r.calls
    /\ trace' = Append(trace, Ran(name, r))
    /\ pc' = next
    /\ hist' = IF name = "respond" THEN FoldTurn ELSE hist
    /\ UNCHANGED <<turn, today, pre, prehist, purevars, storevars>>

ProcessInput ==
    /\ pc = "process_input"
    /\ \E llm \in ExtractionOutcomes :
          Node("process_input", process_input(state, llm), "route")

\* the conditional edges out of process_input; r is what route_intent returns
Routed(r) ==
    /\ state' = r.state
    /\ pc' = NodeOf(r.next)
    /\ trace' = Append(trace, [node |-> "route", exc |-> NONE, next |-> r.next])
    /\ UNCHANGED <<turn, today, pre, calls, hist, prehist, purevars, storevars>>

Route ==
    /\ pc = "route"
    /\ Routed(route_intent(state))

CheckAvailability ==
    /\ pc = "check_availability"
    /\ \E h \in HttpOutcomes("check_availability") :
          Node("check_availability", check_availability_node(state, today, h), "respond")

CreateBooking ==
    /\ pc = "create_booking"
    /\ \E h \in HttpOutcomes("create_booking") :
          Node("create_booking", create_booking_node(state, today, h), "respond")

GetBooking ==
    /\ pc = "get_booking"
    /\ \E h \in HttpOutcomes("get_booking") : Node("get_booking", get_booking_node(state, h), "respond")

UpdateBooking ==
    /\ pc = "update_booking"
    /\ \E h \in HttpOutcomes("update_booking") :
          Node("update_booking", update_booking_node(state, today, h), "respond")

CancelBooking ==
    /\ pc = "cancel_booking"
    /\ \E h \in HttpOutcomes("cancel_booking") : Node("cancel_booking", cancel_booking_node(state, h), "respond")

HandleConversation ==
    /\ pc = "handle_conversation"
    /\ \E llm \in ChatOutcomes :
          Node("handle_conversation", handle_conversation_node(state, llm), "respond")

\* respond leads to END: the turn returns the state
Respond ==
    /\ pc = "respond"
    /\ \E llm \in ChatOutcomes : Node("respond", respond_node(state, llm), "idle")

Next ==
    \/ StartTurn
    \/ ProcessInput
    \/ Route
    \/ CheckAvailability
    \/ CreateBooking
    \/ GetBooking
    \/ UpdateBooking
    \/ CancelBooking
    \/ HandleConversation
    \/ Respond

Spec == Init /\ [][Next]_vars

\* Every completion call and every gateway call returns or raises, and the
\* graph runner then enters the next node: a node that is due runs. A user
\* need not send another message, so StartTurn carries no fairness.
GraphNodes ==
    \/ ProcessInput
    \/ Route
    \/ HandleConversation
    \/ Respond

OperationNodes ==
    \/ CheckAvailability
    \/ CreateBooking
    \/ GetBooking
    \/ UpdateBooking
    \/ CancelBooking

\* ENABLED <<OperationNodes>>_vars, written out: an operation node can run
\* exactly when pc names it (the network always has an outcome for its call,
\* and the node adds its entry to trace)
OperationDue ==
    pc \in {"check_availability", "create_booking", "get_booking", "update_booking",
            "cancel_booking"}

\* weak fairness of the nodes; for the operation nodes it is spelled out with
\* OperationDue in the place of ENABLED
NodesRun ==
    /\ WF_vars(GraphNodes)
    /\ []<>(~OperationDue) \/ []<><<OperationNodes>>_vars

SpecLive == Init /\ [][Next]_vars /\ NodesRun

(***************************************************************************)
(* The router and the node it selects, from every routing input: a turn    *)
(* whose intent extraction has just stored intent and entities             *)
(***************************************************************************)
OptionalValues(v) == {NoneT, <<>>, v}

\* every mapping of the four keys to no value, the empty string or a value
RouteEntities ==
    {Ent(d, t, p, b) : d \in OptionalValues(W_tomorrow), t \in OptionalValues(T_7pm),
                       p \in OptionalValues(T_4), b \in OptionalValues(R2)}

RouteIntents ==
    {NONE, "", "greeting", "check_availability", "create_booking", "get_booking",
     "update_booking", "cancel_booking"}

\* a session that holds stored reference c and pending booking p, in the turn
\* that extracted intent i and entities e
Routing(i, e, c, p) ==
    [initialize_state(SessionId) EXCEPT !.messages = <<HumanMessage("message")>>,
                                        !.intent = i,
                                        !.entities = e,
                                        !.current_booking_reference = c,
                                        !.pending_booking = p]

InitRoute ==
    /\ \E i \in RouteIntents, e \in RouteEntities, c \in {NoneT, R1},
          p \in {EmptyDict, Ent(<<"2", "0", "2", "4", "-", "0", "1", "-", "0", "1">>,
                                T_7pm, NoneT, NoneT)} :
          /\ state = Routing(i, e, c, p)
          /\ pre = [Routing(i, e, c, p) EXCEPT !.messages = <<>>]
    /\ pc = "route"
    /\ turn = 1
    /\ today = Thursday
    /\ trace = <<[node |-> "process_input", exc |-> NONE]>>
    /\ calls = <<>>
    /\ hist = NoHistory
    /\ prehist = NoHistory
    /\ NoPure
    /\ NoStore

NextRoute ==
    \/ Route
    \/ CheckAvailability
    \/ CreateBooking
    \/ GetBooking
    \/ UpdateBooking
    \/ CancelBooking
    \/ HandleConversation
    \/ Respond

SpecRoute == InitRoute /\ [][NextRoute]_vars

(***************************************************************************)
(* The normalizers and the facade on their own: one call, with its input   *)
(* in arg and what it returned in out.                                     *)
(***************************************************************************)
DaySpan == 7
\* 2024-02-26, a Monday before a leap day, and 2024-12-26, a Thursday before
\* the turn of the year
FirstDays == {DateOf(2024, 2, 26), DateOf(2024, 12, 26)}
Days == {d + i : d \in FirstDays, i \in 0..(DaySpan - 1)}

Sp == <<" ">>
\* texts of the calls below
W_this == <<"t", "h", "i", "s">>
T_march1 == <<"2", "0", "2", "4", "-", "0", "3", "-", "0", "1">>
T_dec31 == <<"2", "0", "2", "3", "-", "1", "2", "-", "3", "1">>
T_feb29 == <<"2", "0", "2", "4", "-", "0", "2", "-", "2", "9">>
T_dinner_at == <<"d", "i", "n", "n", "e", "r", " ", "a", "t", " ">>
T_Dinner_at == <<"D", "i", "n", "n", "e", "r", " ", "a", "t", " ">>
T_table_at == <<"t", "a", "b", "l", "e", " ", "a", "t", " ">>
T_or_8 == <<" ", "o", "r", " ", "8">>
T_for_dinner == <<" ", "f", "o", "r", " ", "d", "i", "n", "n", "e", "r">>
T_evening == <<"e", "v", "e", "n", "i", "n", "g">>
T_730am == <<"7", ":", "3", "0", " ", "a", "m">>
T_four_parts == <<"1", ":", "2", ":", "3", ":", "4">>
DateCall(expr, text) == [fn |-> "_parse_date", expr |-> expr, text |-> text]
\* date expressions, each with the expression of the normalizer it is
DateCalls ==
    {DateCall("tomorrow", W_tomorrow),
     DateCall("tomorrow", <<"T">> \o Tail(W_tomorrow)),
     DateCall("weekend", W_weekend),
     DateCall("weekend", W_this \o Sp \o W_weekend),
     DateCall("saturday", W_saturday),
     DateCall("saturday", <<"S">> \o Tail(W_saturday)),
     DateCall("sunday", W_sunday),
     DateCall("next friday", W_next \o Sp \o W_friday),
     DateCall("next friday", <<"N">> \o Tail(W_next) \o Sp \o <<"F">> \o Tail(W_friday)),
     DateCall("today", W_today),
     DateCall("next week", W_next \o Sp \o W_week),
     DateCall("absolute", T_march1),
     DateCall("absolute", T_dec31),
     DateCall("absolute", T_feb29),
     DateCall("several", W_next \o Sp \o W_week \o Sp \o W_sunday),
     DateCall("several", W_today \o Sp \o W_tomorrow),
     DateCall("several", W_tomorrow \o Sp \o W_today),
     DateCall("several", W_sunday \o Sp \o W_saturday),
     DateCall("several", W_next \o Sp \o W_friday \o Sp \o W_sunday),
     DateCall("several", W_next \o Sp \o W_week \o Sp \o W_friday),
     DateCall("several", W_next \o Sp \o W_weekend),
     DateCall("none", NoneT)}

\* the digit strings of the parts of a colon time
HourParts == {<<"7">>, <<"1", "8">>}
MinuteParts == {<<"5">>, <<"3", "0">>}
SecondParts == {<<"9">>, <<"4", "5">>}
Colon == <<":">>
TimeCall(shape, text, parts) == [fn |-> "_parse_time", shape |-> shape, text |-> text, parts |-> parts]
\* H:M and H:M:S, some with blanks around
ColonCalls ==
    {TimeCall("colon", h \o Colon \o m, <<h, m>>) : h \in HourParts, m \in MinuteParts}
    \cup {TimeCall("colon", Sp \o h \o Colon \o m \o Colon \o x \o Sp, <<h, m, x>>) :
            h \in HourParts, m \in MinuteParts, x \in SecondParts}
\* what stands before and after the first integer of a text without colon
Before == {<<>>, T_dinner_at, T_Dinner_at, T_table_at}
After == {<<>>, T_or_8, T_for_dinner}
Hours == {7, 11, 12, 19}
HourCalls ==
    {TimeCall("hour", b \o NatChars(h) \o a, <<NatChars(h)>>) :
        b \in Before, h \in Hours, a \in After}
\* texts without a digit, texts with am or pm, four parts, no text
OtherTimeCalls ==
    {TimeCall("word", W_dinner, <<>>), TimeCall("word", T_evening, <<>>),
     TimeCall("word", <<>>, <<>>),
     TimeCall("twelve", T_7pm, <<>>), TimeCall("twelve", T_730am, <<>>),
     TimeCall("four", T_four_parts, <<>>),
     TimeCall("none", NoneT, <<>>)}
TimeCalls == ColonCalls \cup HourCalls \cup OtherTimeCalls

\* what the gateway does in a call of the facade: the body of a response
\* (with and without the keys the facade reads), null, or an exception
Bodies ==
    {[available_slots |-> Slots], [booking_reference |-> R1],
     [updates |-> [visit_time |-> DefaultTime]], [status |-> "cancelled"], EmptyDict}
GatewayErrors == {"HTTP 500", "HTTP 404", ""}
GatewayResults ==
    {Returned(b, TRUE) : b \in Bodies} \cup {Returned(NoneEnv, TRUE)}
    \cup {Raised(e) : e \in GatewayErrors}
FacadeOps == {"check_availability", "create_booking", "get_booking", "update_booking", "cancel_booking"}
FacadeCalls == {[fn |-> op, r |-> r] : op \in FacadeOps, r \in GatewayResults}

\* lines of a reply of the extraction prompt: intent lines (one indented,
\* one with 'Intent:' a second time, one in lower case), entity lines (with a
\* blank before the colon and colons in the value, with another key, without
\* colon), a line that is neither and an empty line
ReplyLines ==
    {P_Intent \o <<" ", "A", "b">>,
     <<" ">> \o P_Intent \o <<"C", " ">>,
     P_Intent \o <<" ", "a", " ">> \o P_Intent \o <<" ", "b">>,
     <<"i", "n", "t", "e", "n", "t", ":", " ", "d">>,
     P_Dash \o <<"k", ":", " ", "v">>,
     P_Dash \o <<"k", " ", ":", "7", ":", "3", "0">>,
     P_Dash \o <<"j", ":", "w">>,
     P_Dash \o <<"w", "o", "r", "d">>,
     <<"x", ":", " ", "y">>,
     <<>>}
MaxReplyLines == 3
ReplyTexts == UNION {[1..n -> ReplyLines] : n \in 0..MaxReplyLines}
\* '\n'.join(lines)
RECURSIVE JoinLines(_)
JoinLines(lines) ==
    IF lines = <<>> THEN <<>>
    ELSE IF Len(lines) = 1 THEN lines[1]
    ELSE lines[1] \o <<"\n">> \o JoinLines(Tail(lines))
ExtractionCall(lines, text) == [fn |-> "_parse_extraction", lines |-> lines, text |-> text]
\* every reply of up to MaxReplyLines lines, and a reply that is no text
ExtractionCalls ==
    {ExtractionCall(ls, JoinLines(ls)) : ls \in ReplyTexts} \cup {ExtractionCall(<<>>, NoneT)}

\* what the network does with the request of a get_booking turn
GetOutcomes ==
    {[kind |-> "ok", reference |-> R1, slots |-> Slots], HttpStatus(404),
     HttpStatus(400), HttpStatus(500), HttpNetError}
\* get_booking turns from the router on: the entity and the stored reference
\* (one of them at least, or the router had not selected get_booking), what
\* the network does and what the completion call of respond_node does
GetBookingTurns ==
    {call \in [fn : {"get_booking_turn"}, h : GetOutcomes, entity : {NoneT, R2},
               stored : {NoneT, R1}, llm : ChatOutcomes] :
        Truthy(call.entity) \/ Truthy(call.stored)}

\* the turn variables while a function is applied on its own
NoTurn ==
    /\ state = initialize_state(SessionId)
    /\ pc = "idle"
    /\ turn = 0
    /\ pre = initialize_state(SessionId)
    /\ trace = <<>>
    /\ calls = <<>>
    /\ hist = NoHistory
    /\ prehist = NoHistory

InitPure ==
    /\ NoTurn
    /\ NoStore
    /\ out = NoCall
    /\ \/ arg \in DateCalls /\ today \in Days
       \/ /\ arg \in TimeCalls \cup FacadeCalls \cup GetBookingTurns \cup ExtractionCalls
          /\ today = Thursday

\* the call returns v
Return(fn, v) ==
    /\ arg.fn = fn
    /\ out = NoCall
    /\ out' = [fn |-> fn, value |-> v]
    /\ UNCHANGED <<turnvars, arg, storevars>>

ApplyParseDate == Return("_parse_date", _parse_date(arg.text, today))
ApplyParseTime == Return("_parse_time", _parse_time(arg.text))
\* the formatted arguments of the facade calls
FormattedDate == strftime_date(Thursday + 1)
ApplyCheckAvailability ==
    Return("check_availability", CheckAvailabilityEnvelope(FormattedDate, 4, arg.r))
ApplyCreateBooking ==
    Return("create_booking", CreateBookingEnvelope(FormattedDate, DefaultTime, 4, arg.r))
ApplyGetBooking == Return("get_booking", GetBookingEnvelope(R1, arg.r))
ApplyUpdateBooking ==
    Return("update_booking", UpdateBookingEnvelope(R1, NoneT, DefaultTime, arg.r))
ApplyCancelBooking == Return("cancel_booking", CancelBookingEnvelope(R1, arg.r))

\* the state get_booking_node is entered with
GetBookingState == Routing("get_booking", Ent(NoneT, NoneT, NoneT, arg.entity), arg.stored, EmptyDict)
\* a get_booking turn from its node on: what the gateway returns, the facade's
\* envelope, and the state respond_node leaves
AfterGetBooking(s, h, llm) ==
    [gateway |-> api_get_booking(BookingRef(s), h),
     envelope |-> tools_get_booking(BookingRef(s), h).envelope,
     state |-> respond_node(get_booking_node(s, h).state, llm).state]
ApplyGetBookingTurn ==
    Return("get_booking_turn", AfterGetBooking(GetBookingState, arg.h, arg.llm))
ApplyParseExtraction == Return("_parse_extraction", _parse_extraction(arg.text))

NextPure ==
    \/ ApplyParseDate
    \/ ApplyParseTime
    \/ ApplyCheckAvailability
    \/ ApplyCreateBooking
    \/ ApplyGetBooking
    \/ ApplyUpdateBooking
    \/ ApplyCancelBooking
    \/ ApplyGetBookingTurn
    \/ ApplyParseExtraction

SpecPure == InitPure /\ [][NextPure]_vars

(***************************************************************************)
(* Session store and transport adapters (main_agent.py).                   *)
(*                                                                         *)
(* A state dict is an object: heap is the sequence of the dicts created so *)
(* far, a dict is named by its index in heap and 0 is None.  The store     *)
(* maps a session id to the dict stored under it.  All requests run on one *)
(* event loop, so a handler runs alone from one await to the next: a turn  *)
(* is two steps, up to the await of graph.ainvoke and from there to the    *)
(* end of the handler.  The graph works on its own copy of the messages    *)
(* (the add_messages channel of state.py), taken when ainvoke is called.   *)
(***************************************************************************)
SessionIds == {"s1", "s2"}
NumChats == 3
MaxFrames == 2
MaxClears == 1
Chats == 1..NumChats
\* the session id of the connection
WsSessionId == "s1"
\* the texts of the requests and of the frames, in the order they arrive
ChatTexts == <<"c1", "c2", "c3", "c4">>
FrameTexts == <<"w1", "w2", "w3", "w4">>

\* variant of SessionsGet: the dict of some stored session
SessionsGet_Any(st, id) == IF DOMAIN st = {} THEN 0 ELSE st[CHOOSE k \in DOMAIN st : TRUE]
\* sessions.get(session_id): the dict stored under the id, 0 for None
SessionsGet(st, id) == IF id \in DOMAIN st THEN st[id] ELSE 0
\* variant of SessionsPut: an id that is stored keeps its dict
SessionsPut_First(st, id, oid) == [k \in DOMAIN st \cup {id} |-> IF k \in DOMAIN st THEN st[k] ELSE oid]
\* sessions[session_id] = result_state
SessionsPut(st, id, oid) == [k \in DOMAIN st \cup {id} |-> IF k = id THEN oid ELSE st[k]]
\* variant of SessionsDel: the store is emptied
SessionsDel_All(st, id) == EmptyDict
\* del sessions[session_id]
SessionsDel(st, id) == [k \in DOMAIN st \ {id} |-> st[k]]

\* What happens in a turn: whether graph.ainvoke returns or raises, and what
\* the completion calls of process_input (x), handle_conversation_node (c)
\* and respond_node (r) and the request of the gateway (h) do.
TurnOutcome(graph, x, c, r, h) == [graph |-> graph, x |-> x, c |-> c, r |-> r, h |-> h]
Replied == [raised |-> FALSE, text |-> "reply"]
CreateFull == Extraction("create_booking", Ent(W_tomorrow, T_7pm, T_4, NoneT))
Created == [kind |-> "ok", reference |-> R1, slots |-> Slots]
\* str() of the exception of the extraction call: a text, or none
\* (asyncio.TimeoutError(), httpx.ReadTimeout(""))
ExtractionErrors == {"llm unavailable", ""}
TurnOutcomes ==
    {TurnOutcome("ok", Extraction("greeting", EmptyDict), Replied, Replied, HttpStatus(500)),
     TurnOutcome("ok", CreateFull, Replied, Replied, Created),
     TurnOutcome("raises", Extraction("greeting", EmptyDict), Replied, Replied, HttpStatus(500))}
    \cup {TurnOutcome("ok", [raised |-> TRUE, error |-> e], Replied, Replied, HttpStatus(500)) :
            e \in ExtractionErrors}

\* the node the router selected, run on state s
RunNode(next, s, o, t) ==
    CASE next = "respond" -> s
      [] next = "conversation" -> handle_conversation_node(s, o.c).state
      [] next = "check_availability" -> check_availability_node(s, t, o.h).state
      [] next = "create_booking" -> create_booking_node(s, t, o.h).state
      [] next = "get_booking" -> get_booking_node(s, o.h).state
      [] next = "update_booking" -> update_booking_node(s, t, o.h).state
      [] next = "cancel_booking" -> cancel_booking_node(s, o.h).state
\* the graph from the conditional edges on; rt is what route_intent returned
AfterRoute(rt, o, t) == respond_node(RunNode(rt.next, rt.state, o, t), o.r).state
\* self.graph.ainvoke(state) when it returns: process_input, the router, the
\* selected node, respond
graph_ainvoke(s, o, t) == AfterRoute(route_intent(process_input(s, o.x).state), o, t)

\* variant of WithDict: the new state is not given the session's id
WithDict_Unnamed(hp, oid, id) == IF oid = 0 THEN Append(hp, initialize_state("")) ELSE hp
\* process_message up to the await: the dict it works on is the caller's, or
\* a new one when the caller passed None ...
Dict(hp, oid) == IF oid = 0 THEN Len(hp) + 1 ELSE oid
WithDict(hp, oid, id) == IF oid = 0 THEN Append(hp, initialize_state(id)) ELSE hp
\* ... and the user's message is appended to it in place
Begun(hp, oid, id, text) ==
    [WithDict(hp, oid, id) EXCEPT ![Dict(hp, oid)] = AppendMessage(@, HumanMessage(text))]
\* history of a turn in flight: the dict it works on, what that held before
\* the turn, and the copy the graph works on
TurnRec(id, text, oid, hp) ==
    [id |-> id, text |-> text, fresh |-> oid = 0, obj |-> Dict(hp, oid),
     before |-> WithDict(hp, oid, id)[Dict(hp, oid)],
     snap |-> Begun(hp, oid, id, text)[Dict(hp, oid)]]

\* the except clause of process_message, on the dict it works on
Fallback(s, text) ==
    AppendMessage(AppendMessage(s, HumanMessage(text)), AIMessage(FallbackApology))
\* process_message from the await on: the heap it leaves and the dict it
\* returns, a new one of the graph or the caller's after the except clause
Finished(hp, tn, o, t) ==
    IF o.graph = "ok"
    THEN [heap |-> Append(hp, graph_ainvoke(tn.snap, o, t)), result |-> Len(hp) + 1]
    ELSE [heap |-> [hp EXCEPT ![tn.obj] = Fallback(@, tn.text)], result |-> tn.obj]
\* the state process_message returned, f being what Finished gave
Result(f) == f.heap[f.result]

\* the content of the last AIMessage of the returned state, or the fixed
\* text "I'm sorry, I couldn't process that."
NoReply == [kind |-> "no_reply"]
AIMessages(s) == SelectSeq(s.messages, LAMBDA m : m.role = "ai")
ResponseText(s) == IF AIMessages(s) # <<>> THEN Last(AIMessages(s)).content ELSE NoReply

\* history: no session stored, and what a session holds after a turn that
\* started from v
Absent == [absent |-> TRUE]
TurnAlone(v, id, text, o, t) ==
    IF o.graph = "ok"
    THEN graph_ainvoke(AppendMessage(IF v = Absent THEN initialize_state(id) ELSE v,
                                     HumanMessage(text)), o, t)
    ELSE Fallback(AppendMessage(IF v = Absent THEN initialize_state(id) ELSE v,
                                HumanMessage(text)), text)
\* writer: who stored last; solo: the fold of TurnAlone over the finished turns;
\* raced: a request met a turn in flight or an open connection; overlap: a
\* turn began while another turn of the id was in flight
NoGhost ==
    [writer |-> [id \in SessionIds |-> 0],
     solo |-> [id \in SessionIds |-> Absent],
     raced |-> [id \in SessionIds |-> FALSE],
     overlap |-> [id \in SessionIds |-> FALSE]]
\* the writer the connection is in ghost.writer
WsWriter == NumChats + 1

NewChat ==
    [pc |-> "new", id |-> WsSessionId, tn |-> NoCall, with |-> {}, outcome |-> NoCall,
     result |-> 0, value |-> Absent, reply |-> NoReply, status |-> 0]
NoSocket ==
    [pc |-> "closed", state |-> 0, frames |-> 0, turns |-> 0, tn |-> NoCall,
     outcome |-> NoCall, stored |-> 0, storedval |-> Absent, touched |-> FALSE,
     reply |-> NoReply, sent |-> <<>>]
NoCleared == [n |-> 0, id |-> WsSessionId, found |-> FALSE, before |-> EmptyDict, after |-> EmptyDict]

InitStore ==
    /\ NoTurn
    /\ today = Thursday
    /\ NoPure
    /\ heap = <<>>
    /\ sessions = EmptyDict
    /\ chats = [r \in Chats |-> NewChat]
    /\ websocket = NoSocket
    /\ cleared = NoCleared
    /\ ghost = NoGhost

\* the turns in flight on a session, and whether the connection is on it
Running(id) == {r \in Chats : chats[r].pc = "running" /\ chats[r].id = id}
WsRunning(id) == id = WsSessionId /\ websocket.pc = "running"
WsOpen(id) == id = WsSessionId /\ websocket.pc \in {"open", "running"}
InFlight(id) == Running(id) \cup (IF WsRunning(id) THEN {WsWriter} ELSE {})

\* history: the dict the connection holds gets a message of another request
Touch(oid) ==
    IF oid # 0 /\ websocket.state = oid THEN [websocket EXCEPT !.touched = TRUE]
    ELSE websocket

\* chat, lines 80-90 up to the await inside process_message
ChatBegin(r, id) ==
    /\ chats[r].pc = "new"
    /\ \A q \in Chats : q < r => chats[q].pc # "new"    \* in the order they arrive
    /\ heap' = Begun(heap, SessionsGet(sessions, id), id, ChatTexts[r])
    /\ chats' = [chats EXCEPT ![r] =
                    [@ EXCEPT !.pc = "running", !.id = id, !.with = InFlight(id),
                              !.tn = TurnRec(id, ChatTexts[r], SessionsGet(sessions, id), heap)]]
    /\ websocket' = Touch(SessionsGet(sessions, id))
    /\ ghost' = [ghost EXCEPT !.raced[id] = @ \/ InFlight(id) # {},
                              !.overlap[id] = @ \/ InFlight(id) # {}]
    /\ UNCHANGED <<turnvars, purevars, sessions, cleared>>

\* chat, from the await to the response (lines 86-105); f is what
\* process_message left
ChatFinished(r, o, f) ==
    /\ heap' = f.heap
    /\ sessions' = SessionsPut(sessions, chats[r].id, f.result)
    /\ chats' = [chats EXCEPT ![r] =
                    [@ EXCEPT !.pc = "done", !.outcome = o, !.status = 200,
                              !.result = f.result,
                              !.value = Result(f),
                              !.reply = ResponseText(Result(f))]]
    /\ websocket' = IF o.graph = "ok" THEN websocket ELSE Touch(chats[r].tn.obj)
    /\ ghost' = [ghost EXCEPT
                    !.writer[chats[r].id] = r,
                    !.solo[chats[r].id] = TurnAlone(@, chats[r].id, chats[r].tn.text, o, today),
                    !.raced[chats[r].id] = @ \/ WsOpen(chats[r].id)]
    /\ UNCHANGED <<turnvars, purevars, cleared>>

ChatFinish(r, o) ==
    /\ chats[r].pc = "running"
    /\ \E f \in {Finished(heap, chats[r].tn, o, today)} : ChatFinished(r, o, f)

\* variant of SendJson: the frame goes out twice
SendJson_Twice(sent, type, n) ==
    sent \o <<[type |-> type, frame |-> n], [type |-> type, frame |-> n]>>
\* websocket.send_json: the server frames sent so far get one more, of the
\* given type; n is the number of the client frame it answers (0: none)
SendJson(sent, type, n) == Append(sent, [type |-> type, frame |-> n])

\* websocket_endpoint, lines 121-132: the state is read once
WsConnect ==
    /\ websocket.pc = "closed"
    /\ websocket' = [websocket EXCEPT !.pc = "open",
                                      !.state = SessionsGet(sessions, WsSessionId),
                                      !.sent = SendJson(@, "system", 0)]
    /\ ghost' = [ghost EXCEPT !.raced[WsSessionId] = @ \/ InFlight(WsSessionId) # {}]
    /\ UNCHANGED <<turnvars, purevars, heap, sessions, chats, cleared>>

\* a frame without message: continue (lines 136-141)
WsReceiveEmpty ==
    /\ websocket.pc = "open"
    /\ websocket.frames < MaxFrames
    /\ websocket' = [websocket EXCEPT !.frames = @ + 1]
    /\ UNCHANGED <<turnvars, purevars, heap, sessions, chats, cleared, ghost>>

\* a frame with a message, up to the await inside process_message
WsReceive ==
    /\ websocket.pc = "open"
    /\ websocket.frames < MaxFrames
    /\ heap' = Begun(heap, websocket.state, WsSessionId, FrameTexts[websocket.frames + 1])
    /\ websocket' = [websocket EXCEPT
                        !.pc = "running", !.frames = @ + 1,
                        !.sent = SendJson(@, "typing", websocket.frames + 1),
                        !.tn = TurnRec(WsSessionId, FrameTexts[websocket.frames + 1],
                                       websocket.state, heap)]
    /\ ghost' = [ghost EXCEPT !.raced[WsSessionId] = @ \/ InFlight(WsSessionId) # {},
                              !.overlap[WsSessionId] = @ \/ InFlight(WsSessionId) # {}]
    /\ UNCHANGED <<turnvars, purevars, sessions, chats, cleared>>

\* variant of WsKeep: the connection keeps the state it read when it opened
WsKeep_First(old, result) == old
\* state = result_state (line 161)
WsKeep(old, result) == result

\* the frame's turn from the await to the response frame (lines 153-174); f
\* is what process_message left
WsFinished(o, f) ==
    /\ heap' = f.heap
    /\ sessions' = SessionsPut(sessions, WsSessionId, f.result)
    /\ websocket' = [websocket EXCEPT
                        !.pc = "open", !.turns = @ + 1, !.outcome = o, !.touched = FALSE,
                        !.sent = SendJson(@, "response", websocket.frames),
                        !.state = WsKeep(@, f.result),
                        !.stored = f.result,
                        !.storedval = Result(f),
                        !.reply = ResponseText(Result(f))]
    /\ ghost' = [ghost EXCEPT
                    !.writer[WsSessionId] = WsWriter,
                    !.solo[WsSessionId] = TurnAlone(@, WsSessionId, websocket.tn.text, o, today)]
    /\ UNCHANGED <<turnvars, purevars, chats, cleared>>

WsFinish(o) ==
    /\ websocket.pc = "running"
    /\ \E f \in {Finished(heap, websocket.tn, o, today)} : WsFinished(o, f)

\* receive_text raises WebSocketDisconnect (lines 183-184)
WsDisconnect ==
    /\ websocket.pc = "open"
    /\ websocket' = [websocket EXCEPT !.pc = "gone"]
    /\ UNCHANGED <<turnvars, purevars, heap, sessions, chats, cleared, ghost>>

\* clear_session
ClearSession(id) ==
    /\ cleared.n < MaxClears
    /\ sessions' = IF id \in DOMAIN sessions THEN SessionsDel(sessions, id) ELSE sessions
    /\ cleared' = [n |-> cleared.n + 1, id |-> id, found |-> id \in DOMAIN sessions,
                   before |-> sessions,
                   after |-> IF id \in DOMAIN sessions THEN SessionsDel(sessions, id)
                             ELSE sessions]
    /\ ghost' = [ghost EXCEPT
                    !.writer[id] = 0,
                    !.solo[id] = Absent,
                    !.raced[id] = @ \/ InFlight(id) # {} \/ WsOpen(id)]
    /\ UNCHANGED <<turnvars, purevars, heap, chats, websocket>>

\* the single-shot requests and the deletions
NextStore ==
    \/ \E r \in Chats, id \in SessionIds : ChatBegin(r, id)
    \/ \E r \in Chats, o \in TurnOutcomes : ChatFinish(r, o)
    \/ \E id \in SessionIds : ClearSession(id)

SpecStore == InitStore /\ [][NextStore]_vars

\* one connection, with one single-shot request and the deletions beside it
NextSocket ==
    \/ WsConnect
    \/ WsReceiveEmpty
    \/ WsReceive
    \/ \E o \in TurnOutcomes : WsFinish(o)
    \/ WsDisconnect
    \/ \E id \in SessionIds : ChatBegin(1, id)
    \/ \E o \in TurnOutcomes : ChatFinish(1, o)
    \/ \E id \in SessionIds : ClearSession(id)

SpecSocket == InitStore /\ [][NextSocket]_vars

(***************************************************************************)
(* Properties.  A turn is over when the graph is back at idle; pre and     *)
(* prehist are then the session before the turn, trace and calls what the  *)
(* turn did.                                                               *)
(***************************************************************************)
Done == pc = "idle" /\ turn > 0

\* the router has run in the current turn; Selected is what it chose
HasRouted == Len(trace) >= 2 /\ trace[2].node = "route"
Selected == trace[2].next

\* the messages the current turn appended after the user's
Replies == SubSeq(state.messages, Len(pre.messages) + 2, Len(state.messages))

\* some node of the current turn raised
TurnRaised == \E k \in 1..Len(trace) : trace[k].exc # NONE

DateTomorrow == <<"2", "0", "2", "4", "-", "0", "3", "-", "1", "5">>
TimeSevenPm == <<"1", "9", ":", "0", "0", ":", "0", "0">>
\* YYYY-MM-DD and HH:MM:SS
IsDateText(v) ==
    /\ Len(v) = 10
    /\ \A i \in 1..10 : IF i \in {5, 8} THEN v[i] = "-" ELSE IsDigit(v[i])
IsTimeText(v) ==
    /\ Len(v) = 8
    /\ \A i \in 1..8 : IF i \in {3, 6} THEN v[i] = ":" ELSE IsDigit(v[i])

\* C1: every turn appends exactly one assistant message after the user's
\* message, on every path, also when intent extraction fails while the
\* session holds the intent and entities of an earlier turn.
C1_OneAssistantMessage ==
    Done => Len(Replies) = 1 /\ Replies[1].role = "ai"

\* C2: over a turn current_booking_reference becomes the reference the
\* gateway returned when the turn's create_booking succeeded, becomes absent
\* when its cancel_booking succeeded, and is what it was in every other turn.
C2_ReferenceFrame ==
    Done =>
        state.current_booking_reference =
            IF GatewayReturned("create_booking")
            THEN calls[1].value.booking_reference
            ELSE IF GatewayReturned("cancel_booking") THEN NoneT
            ELSE pre.current_booking_reference

\* a successful cancel_booking turn cleared the stored reference
C2_Witness ==
    /\ Done
    /\ GatewayReturned("cancel_booking")
    /\ Truthy(pre.current_booking_reference)
    /\ state.current_booking_reference = NoneT

\* the turn extracted cancel_booking with no booking_reference in the entities
CancelWithoutReference ==
    /\ Extracted
    /\ state.intent = "cancel_booking"
    /\ ~Present(state.entities, "booking_reference")

\* C3: when a create_booking turn succeeded and no create or cancel ran
\* since, a cancel_booking turn whose entities carry no booking_reference is
\* routed to cancel_booking, asks the gateway to cancel the reference that
\* create stored, and leaves current_booking_reference absent when the
\* gateway call succeeds; any number of other turns may lie in between.
C3_CancelStoredReference ==
    (Done /\ CancelWithoutReference /\ Truthy(prehist.created)) =>
        /\ Selected = "cancel_booking"
        /\ Len(calls) = 1
        /\ calls[1].op = "cancel_booking"
        /\ calls[1].booking_reference = prehist.created
        /\ (~calls[1].raised => state.current_booking_reference = NoneT)

\* create_booking, another turn, then the cancel that succeeded
C3_Witness ==
    /\ Done
    /\ CancelWithoutReference
    /\ Truthy(prehist.created)
    /\ prehist.gap >= 1
    /\ GatewayReturned("cancel_booking")
    /\ state.current_booking_reference = NoneT

\* the turn ran create_booking for create_booking with all three fields and
\* the gateway call returned
CreateSucceeded ==
    /\ Done
    /\ state.intent = "create_booking"
    /\ AllThree(state.entities)
    /\ OpNode = "create_booking"
    /\ GatewayReturned("create_booking")

\* C4: when a create_booking turn with date, time and party_size present
\* gets a successful gateway call, the gateway was given the date as
\* YYYY-MM-DD and the time as HH:MM:SS ("tomorrow" on 2024-03-14 as
\* 2024-03-15, "7pm" as 19:00:00), current_booking_reference is afterwards
\* present and is the reference the gateway returned, and a confirmation
\* with that reference was appended.
C4_CreateStoresReference ==
    CreateSucceeded =>
        /\ IsDateText(calls[1].visit_date)
        /\ IsTimeText(calls[1].visit_time)
        /\ (state.entities["date"] = W_tomorrow => calls[1].visit_date = DateTomorrow)
        /\ (state.entities["time"] = T_7pm => calls[1].visit_time = TimeSevenPm)
        /\ Truthy(state.current_booking_reference)
        /\ state.current_booking_reference = calls[1].value.booking_reference
        /\ \E i \in 1..Len(Replies) :
              /\ Replies[i].role = "ai"
              /\ Replies[i].content.kind = "booking_created"
              /\ Replies[i].content.reference = calls[1].value.booking_reference
              /\ Replies[i].content.date = calls[1].visit_date
              /\ Replies[i].content.time = calls[1].visit_time

\* a second booking replaced the stored reference of the first
C4_Witness ==
    /\ CreateSucceeded
    /\ Extracted
    /\ Truthy(pre.current_booking_reference)
    /\ state.current_booking_reference # pre.current_booking_reference

\* C5: for intent check_availability the router selects check_availability
\* exactly when date and party_size are both present (carry a non-empty
\* value), and conversation for every other entity set.
C5_CheckAvailabilityRoute ==
    (HasRouted /\ state.intent = "check_availability") =>
        Selected = IF /\ Present(state.entities, "date")
                      /\ Present(state.entities, "party_size")
                   THEN "check_availability"
                   ELSE "conversation"

\* only party_size is missing and the router chose conversation
C5_Witness ==
    /\ HasRouted
    /\ state.intent = "check_availability"
    /\ Present(state.entities, "date")
    /\ ~Present(state.entities, "party_size")
    /\ Selected = "conversation"
    /\ pc = "handle_conversation"

\* create_booking was routed with date and party_size but no time
DateAndPartyOnly ==
    /\ HasRouted
    /\ state.intent = "create_booking"
    /\ Present(state.entities, "date")
    /\ Present(state.entities, "party_size")
    /\ ~Present(state.entities, "time")

\* C6: for intent create_booking and an entity set with date and party_size
\* but no time the router selects conversation, and pending_booking then
\* holds date and party_size with the values of the entity set.
C6_PartialCreateMerged ==
    DateAndPartyOnly =>
        /\ Selected = "conversation"
        /\ {"date", "party_size"} \subseteq DOMAIN state.pending_booking
        /\ state.pending_booking["date"] = state.entities["date"]
        /\ state.pending_booking["party_size"] = state.entities["party_size"]

\* the date of the entity set replaced the date pending_booking held
C6_Witness ==
    /\ DateAndPartyOnly
    /\ "date" \in DOMAIN pre.pending_booking
    /\ pre.pending_booking["date"] # state.entities["date"]
    /\ state.pending_booking["date"] = state.entities["date"]

ByReference == {"get_booking", "update_booking", "cancel_booking"}

\* C7: for get_booking, update_booking and cancel_booking the router selects
\* the operation exactly when the entities carry a booking_reference or the
\* session has a current booking reference, and conversation otherwise; the
\* operation asks the gateway about the reference of the entities when there
\* is one, and about the stored reference only when there is none.
C7_ReferenceRoute ==
    (HasRouted /\ state.intent \in ByReference) =>
        /\ Selected = IF \/ Present(state.entities, "booking_reference")
                         \/ Truthy(pre.current_booking_reference)
                      THEN state.intent
                      ELSE "conversation"
        /\ (OpNode \in ByReference =>
                /\ Len(calls) = 1
                /\ calls[1].op = OpNode
                /\ calls[1].booking_reference =
                       IF Present(state.entities, "booking_reference")
                       THEN state.entities["booking_reference"]
                       ELSE pre.current_booking_reference)

\* both references are there and the operation took the one of the entities
C7_Witness ==
    /\ HasRouted
    /\ state.intent \in ByReference
    /\ OpNode = state.intent
    /\ Present(state.entities, "booking_reference")
    /\ Truthy(pre.current_booking_reference)
    /\ pre.current_booking_reference # state.entities["booking_reference"]
    /\ calls[1].booking_reference = state.entities["booking_reference"]

\* C8 as stated: after create_booking turns none of which carried all three
\* of date, time and party_size, pending_booking holds the latest value of
\* every entity supplied in any of those turns.
C8_AllSuppliedAccumulate ==
    (Done /\ hist.partial) => state.pending_booking = hist.supplied

\* C8: after create_booking turns none of which carried all three of date,
\* time and party_size, pending_booking holds the latest value of every
\* entity supplied in those of the turns that carried a date or a
\* party_size; a turn that carried neither (time alone) adds nothing.
C8_MergedAccumulate ==
    (Done /\ hist.partial) => state.pending_booking = hist.merged

\* two partial turns: the second left out the time the first had supplied,
\* and pending_booking has all three fields
C8_Witness ==
    /\ Done
    /\ hist.partial
    /\ turn >= 2
    /\ ~Present(state.entities, "time")
    /\ DOMAIN state.pending_booking = {"date", "time", "party_size"}

\* C9: an exception raised in intent extraction or in an operation node is
\* recorded as the pending error, and after every turn the pending error is
\* absent.
C9_ErrorCleared ==
    /\ (pc = "route" /\ trace[1].exc # NONE) => state.error = trace[1].exc
    /\ (pc = "respond" /\ OpNode \notin {"none", "handle_conversation"}
        /\ trace[3].exc # NONE) => state.error # NONE
    /\ Done => state.error = NONE

\* C10: the apology of a failed turn does not contain the text of the
\* failure, so turns that differ only in that text get the same message.
C10_ApologyWithoutFailureText ==
    Done =>
        \A i \in 1..Len(Replies), k \in 1..Len(trace) :
            (trace[k].exc # NONE /\ Replies[i].content.kind = "error_apology")
                => Replies[i].content.error # trace[k].exc

\* a facade operation applied on its own has returned
FacadeReturned == arg.fn \in FacadeOps /\ out # NoCall
Envelope == out.value.envelope

\* C17: whatever the gateway does (return a body, return null, raise), each of
\* the five facade operations returns an envelope: its message is not empty,
\* it never has success together with a populated error, and when the gateway
\* raised it has success false and the text of the failure as its error.
C17_EnvelopeWellFormed ==
    FacadeReturned =>
        /\ {"success", "message"} \subseteq DOMAIN Envelope
        /\ Envelope.message # ""
        /\ ~(Envelope.success /\ TruthyS(EnvGet(Envelope, "error", NONE)))
        /\ arg.r.raised =>
            (~Envelope.success /\ EnvGet(Envelope, "error", NONE) = arg.r.error)

\* the gateway raised in create_booking and the envelope carries its text
C17_Witness ==
    /\ FacadeReturned
    /\ arg.fn = "create_booking"
    /\ arg.r.raised
    /\ arg.r.error = "HTTP 500"
    /\ Envelope = Failure("HTTP 500", "Failed to create booking")

\* the date a YYYY-MM-DD text names
ReadDate(s) ==
    DateOf(DigitsValue(SubSeq(s, 1, 4)), DigitsValue(SubSeq(s, 6, 7)), DigitsValue(SubSeq(s, 9, 10)))
\* Monday is 0
WeekdayOf(expr) ==
    IF expr \in {"weekend", "saturday"} THEN 5 ELSE IF expr = "sunday" THEN 6 ELSE 4
DateReturned == arg.fn = "_parse_date" /\ out # NoCall

\* C18: on every weekday of today, 'tomorrow' is today plus one day,
\* 'weekend' and 'saturday' the first Saturday after today, 'sunday' the
\* first Sunday after today and 'next friday' the first Friday after today:
\* 1 to 7 days ahead, never today.
C18_RelativeDates ==
    (DateReturned /\ arg.expr \in {"tomorrow", "weekend", "saturday", "sunday", "next friday"}) =>
        /\ Len(out.value) = 10
        /\ \E k \in 1..7 :
            /\ ReadDate(out.value) = today + k
            /\ IF arg.expr = "tomorrow" THEN k = 1
               ELSE weekday(today + k) = WeekdayOf(arg.expr)

\* 'next friday' on a Thursday is the day after
C18_Witness ==
    /\ DateReturned
    /\ arg.expr = "next friday"
    /\ weekday(today) = 3
    /\ ReadDate(out.value) = today + 1

TimeReturned == arg.fn = "_parse_time" /\ out # NoCall
\* the hour the text of an hour call stands for
HourMeant(h, text) == IF h < 12 /\ Contains(Lower(text), W_dinner) THEN h + 12 ELSE h
ZeroSeconds == <<":", "0", "0">>
Padded(part) == Pad2(DigitsValue(part))

\* C19: without am or pm, H:M becomes HH:MM:00 and H:M:S becomes HH:MM:SS,
\* zero-padded; a text without colon becomes the hour of its first integer,
\* plus 12 when that is below 12 and the text contains 'dinner'; a text
\* without a digit becomes 19:00:00.
C19_TimeNormalized ==
    TimeReturned =>
        /\ (arg.shape = "colon" /\ Len(arg.parts) = 2) =>
            out.value = Padded(arg.parts[1]) \o Colon \o Padded(arg.parts[2]) \o ZeroSeconds
        /\ (arg.shape = "colon" /\ Len(arg.parts) = 3) =>
            out.value = Padded(arg.parts[1]) \o Colon \o Padded(arg.parts[2])
                        \o Colon \o Padded(arg.parts[3])
        /\ arg.shape = "hour" =>
            out.value = Pad2(HourMeant(DigitsValue(arg.parts[1]), arg.text))
                        \o ZeroSeconds \o ZeroSeconds
        /\ arg.shape = "word" => out.value = <<"1", "9", ":", "0", "0", ":", "0", "0">>

\* 'dinner at 7' became 19:00:00
C19_Witness ==
    /\ TimeReturned
    /\ arg.text = T_dinner_at \o <<"7">>
    /\ out.value = <<"1", "9", ":", "0", "0", ":", "0", "0">>

\* the error of the state when the router ran: the text of the exception of
\* intent extraction, else what the turn started with
ErrorBeforeRoute == IF trace[1].exc # NONE THEN trace[1].exc ELSE pre.error

\* C20: a turn makes at most one gateway call, and only the call of the
\* operation the router selected; a turn routed to conversation or respond
\* makes none and the router records no error; a call that failed is not
\* made again in the turn.
C20_OneGatewayCall ==
    /\ Len(calls) <= 1
    /\ \A i \in 1..Len(calls) : HasRouted /\ calls[i].op = Selected
    /\ (HasRouted /\ Selected \in {"conversation", "respond"}) =>
        /\ calls = <<>>
        /\ Len(trace) = 2 => state.error = ErrorBeforeRoute
    /\ Cardinality({i \in 1..Len(calls) : calls[i].raised}) <= 1

\* a create_booking turn whose gateway call failed is over, with one call
C20_Witness ==
    /\ Done
    /\ Selected = "create_booking"
    /\ Len(calls) = 1
    /\ calls[1].raised
    /\ trace[1].exc = NONE

\* a single-shot request is over, and its turn
Over(r) == chats[r].pc = "done"
TurnOf(r) == chats[r].tn
\* a state without its messages
Fields(s) == [s EXCEPT !.messages = <<>>]

\* C11: when graph.ainvoke raises, the turn returns the messages the session
\* had, then the user's message once and one fallback apology, and every
\* other field as it was before the turn.
C11_FailureFrame ==
    \A r \in Chats :
        (Over(r) /\ chats[r].outcome.graph = "raises" /\ chats[r].with = {}) =>
            /\ chats[r].value.messages =
                   TurnOf(r).before.messages
                   \o <<HumanMessage(TurnOf(r).text), AIMessage(FallbackApology)>>
            /\ Fields(chats[r].value) = Fields(TurnOf(r).before)

Apologies == {"error_apology", "fallback_apology"}
\* the extraction call of the request's turn raised
ExtractionRaised(r) ==
    Over(r) /\ chats[r].outcome.graph = "ok" /\ chats[r].outcome.x.raised

\* C12: when the completion call of intent extraction raises, the text of the
\* failure becomes the error of the state, the request is answered normally
\* and the reply is an apology.
C12_ExtractionFailureApology ==
    \A r \in Chats :
        ExtractionRaised(r) =>
            /\ process_input(TurnOf(r).snap, chats[r].outcome.x).state.error
                   = chats[r].outcome.x.error
            /\ chats[r].status = 200
            /\ chats[r].reply.kind \in Apologies

\* two requests for one session id that both read the store before either
\* wrote, q writing last
BothReadFirst(r, q) ==
    /\ r # q
    /\ Over(r) /\ Over(q)
    /\ chats[r].id = chats[q].id
    /\ r \in chats[q].with \/ q \in chats[r].with
    /\ ghost.writer[chats[q].id] = q
\* both found no state under the id
BothNew(r, q) == TurnOf(r).fresh /\ TurnOf(q).fresh
Stored(id) == heap[sessions[id]]

\* C13: when two turns for one session id both read the store before either
\* writes, the store holds the dict of the turn that wrote last; for a new
\* session that state is what the last writer's turn alone gives, without the
\* other turn's user message, reply or booking reference.
C13_LastWriterWins ==
    \A r, q \in Chats :
        BothReadFirst(r, q) =>
            /\ chats[q].id \in DOMAIN sessions
            /\ sessions[chats[q].id] = chats[q].result
            /\ BothNew(r, q) =>
                /\ chats[q].value
                       = TurnAlone(Absent, chats[q].id, TurnOf(q).text, chats[q].outcome, today)
                /\ \A i \in 1..Len(Stored(chats[q].id).messages) :
                       Stored(chats[q].id).messages[i].role = "human"
                           => Stored(chats[q].id).messages[i].content # TurnOf(r).text
                /\ AIMessages(Stored(chats[q].id)) = AIMessages(chats[q].value)
                /\ Stored(chats[q].id).current_booking_reference
                       = chats[q].value.current_booking_reference

\* the first of two overlapping turns of a new session created booking R1 and
\* answered with the confirmation; the store holds neither
C13_Witness ==
    \E r, q \in Chats :
        /\ BothReadFirst(r, q)
        /\ BothNew(r, q)
        /\ chats[r].value.current_booking_reference = R1
        /\ chats[r].reply.kind = "booking_created"
        /\ Stored(chats[q].id).current_booking_reference = NoneT
        /\ Len(Stored(chats[q].id).messages) = 2

\* what the store holds under an id
StoredValue(id) == IF id \in DOMAIN sessions THEN Stored(id) ELSE Absent

\* C14: a session whose own requests did not overlap holds, whenever none of
\* its turns is in flight, the state its own turns give when they run alone
\* in the same order, whatever the turns of the other session did meanwhile.
C14_SessionsIsolated ==
    \A id \in SessionIds :
        (~ghost.raced[id] /\ InFlight(id) = {}) => StoredValue(id) = ghost.solo[id]

\* two turns on different ids, interleaved (the dicts are numbered in the
\* order they were created: r began, q began, r ended, q ended), both stored
C14_Witness ==
    \E r, q \in Chats :
        /\ Over(r) /\ Over(q)
        /\ chats[r].id # chats[q].id
        /\ TurnOf(r).obj < TurnOf(q).obj
        /\ TurnOf(q).obj < chats[r].result
        /\ chats[r].result < chats[q].result
        /\ ~ghost.raced[chats[r].id] /\ ~ghost.raced[chats[q].id]
        /\ StoredValue(chats[r].id) = chats[r].value
        /\ StoredValue(chats[q].id) = chats[q].value

\* the frames whose messages are in a state, in the order of the messages
FrameNo(text) == CHOOSE k \in 1..Len(FrameTexts) : FrameTexts[k] = text
IsFrameText(m) == m.role = "human" /\ \E k \in 1..Len(FrameTexts) : FrameTexts[k] = m.content
FramesOf(s) == SelectSeq(s.messages, IsFrameText)
InArrivalOrder(fs) ==
    \A i, j \in 1..Len(fs) : i < j => FrameNo(fs[i].content) <= FrameNo(fs[j].content)

\* C15: on one connection the turn of a frame starts when the turn of the
\* frame before it has stored its state, from the dict that turn stored (with
\* the value it had then, unless a request beside the connection has written
\* to that dict since), and the frames are processed in arrival order.
C15_FramesInOrder ==
    /\ (websocket.pc = "running" /\ websocket.turns > 0) =>
        /\ websocket.tn.obj = websocket.stored
        /\ ~websocket.touched => websocket.tn.before = websocket.storedval
    /\ websocket.turns > 0 => InArrivalOrder(FramesOf(websocket.storedval))
    /\ websocket.pc = "running" => websocket.tn.text = FrameTexts[websocket.frames]

\* the turn of the second frame runs on the state the first one stored
C15_Witness ==
    /\ websocket.pc = "running"
    /\ websocket.turns = 1
    /\ websocket.frames = 2
    /\ ~websocket.touched
    /\ websocket.tn.before = websocket.storedval
    /\ websocket.tn.snap.messages = Append(websocket.storedval.messages, HumanMessage("w2"))

\* C16: deleting an id that is not stored answers not found and leaves the
\* store as it is; deleting a stored id removes that entry and no other, and
\* the id is absent afterwards.  No state dict is changed.
C16_ClearSession ==
    [][cleared'.n # cleared.n =>
        /\ heap' = heap
        /\ cleared'.found = (cleared'.id \in DOMAIN sessions)
        /\ ~cleared'.found => sessions' = sessions
        /\ cleared'.found =>
            /\ DOMAIN sessions' = DOMAIN sessions \ {cleared'.id}
            /\ \A k \in DOMAIN sessions' : sessions'[k] = sessions[k]
            /\ SessionsGet(sessions', cleared'.id) = 0]_vars

\* one of two stored sessions was deleted, the other is still stored
C16_Witness ==
    /\ cleared.n = 1
    /\ cleared.found
    /\ DOMAIN cleared.before = SessionIds
    /\ DOMAIN cleared.after = SessionIds \ {cleared.id}

(***************************************************************************)
(* The router's decision table and its frame                               *)
(***************************************************************************)
BookingIntents ==
    {"check_availability", "create_booking", "get_booking", "update_booking",
     "cancel_booking"}

\* the router's step: what it returns is the entry it adds to trace
RouterReturns(next) == pc = "route" /\ Last(trace').next = next

\* the create_booking row that merges: not all three fields, and date or
\* party_size present
PartialCreateRow(s) ==
    /\ s.intent = "create_booking"
    /\ ~AllThree(s.entities)
    /\ Present(s.entities, "date") \/ Present(s.entities, "party_size")

\* C21: the router returns respond when the intent is None and conversation
\* for every intent that is none of the five booking intents; it changes no
\* field of the state other than pending_booking, and not pending_booking
\* either outside the partial create_booking row (so not for create_booking
\* with all three fields, nor for create_booking with time only).
C21_RouterFrame ==
    [][pc = "route" =>
          /\ state.intent = NONE => RouterReturns("respond")
          /\ TruthyS(state.intent) /\ state.intent \notin BookingIntents
                => RouterReturns("conversation")
          /\ \A f \in DOMAIN state \ {"pending_booking"} : state'[f] = state[f]
          /\ ~PartialCreateRow(state) => state' = state]_vars

\* the router has run on create_booking with a time and neither date nor
\* party_size, in a session whose pending booking holds fields
C21_Witness ==
    /\ HasRouted
    /\ Selected = "conversation"
    /\ state.intent = "create_booking"
    /\ Present(state.entities, "time")
    /\ ~Present(state.entities, "date") /\ ~Present(state.entities, "party_size")
    /\ state.pending_booking # EmptyDict

(***************************************************************************)
(* The order of the nodes in a turn                                        *)
(***************************************************************************)
\* the nodes between the router and respond_node
MiddleNodes == BookingIntents \cup {"handle_conversation"}

\* the node that ran k-th in the current turn
NodeAt(k) == trace[k].node

\* C22: the nodes of a turn run in the order process_input, router, at most
\* one of the five operation nodes or handle_conversation, respond_node; no
\* node runs twice, and a turn that has returned ended with respond_node.
C22_NodeOrder ==
    /\ Len(trace) <= 4
    /\ Len(trace) >= 1 => NodeAt(1) = "process_input"
    /\ Len(trace) >= 2 => NodeAt(2) = "route"
    /\ Len(trace) >= 3 => NodeAt(3) \in MiddleNodes \cup {"respond"}
    /\ Len(trace) = 4 => NodeAt(3) \in MiddleNodes /\ NodeAt(4) = "respond"
    /\ \A i, j \in 1..Len(trace) : NodeAt(i) = NodeAt(j) => i = j
    /\ Done => Len(trace) >= 3 /\ NodeAt(Len(trace)) = "respond"
    /\ (trace # <<>> /\ Last(trace).node = "respond") => pc = "idle"

\* a turn of four nodes through create_booking, whose gateway call returned
C22_Witness ==
    /\ Done
    /\ Len(trace) = 4
    /\ NodeAt(3) = "create_booking"
    /\ GatewayReturned("create_booking")

(***************************************************************************)
(* Every turn finishes                                                     *)
(***************************************************************************)
\* a turn is under way
TurnStarted == pc # "idle"
\* the turn has returned its state
TurnReturned == pc = "idle"

\* C23: when every completion call and every gateway call returns or raises
\* (the fairness of SpecLive), every turn that has started returns: no turn
\* loops or waits forever.
C23_TurnFinishes == TurnStarted ~> TurnReturned

\* a second turn has returned whose extraction failed and whose gateway call
\* raised
C23_Witness ==
    /\ Done
    /\ turn = 2
    /\ ~Extracted
    /\ calls # <<>> /\ calls[1].raised

(***************************************************************************)
(* A get_booking turn whose booking does not exist                         *)
(***************************************************************************)
\* the get_booking turn applied on its own has returned
GetTurnReturned == out.fn = "get_booking_turn"
\* what the network did in it
NotFound == arg.h.kind = "status" /\ arg.h.status = 404
OtherStatus == arg.h.kind = "status" /\ arg.h.status # 404

\* the facade's envelope for a booking that does not exist
NotFoundEnvelope(env) ==
    /\ DOMAIN env = {"success", "message", "reference"}    \* no error key
    /\ env.success = FALSE
    /\ env.message = "No booking found with reference"

\* the turn ended with one apology, for error text e, after the user's message
EndedWithApology(s, e) ==
    /\ Len(s.messages) = 2
    /\ s.messages[1].role = "human"
    /\ s.messages[2] = AIMessage(ErrorApology(e))

\* C24: in a get_booking turn a 404 response makes the gateway return None
\* without raising, and every other non-2xx response makes it raise; for the
\* None result the facade's envelope has success false, the not-found message
\* and no error key, the turn ends with an apology and the stored booking
\* reference is what it was.
C24_NotFound ==
    GetTurnReturned =>
        /\ OtherStatus => out.value.gateway.raised
        /\ NotFound =>
              /\ ~out.value.gateway.raised
              /\ out.value.gateway.value = NoneEnv
              /\ NotFoundEnvelope(out.value.envelope)
              /\ EndedWithApology(out.value.state, out.value.envelope.message)
              /\ out.value.state.current_booking_reference = arg.stored

\* a 404 in a turn that asks about R2 in a session that holds R1
C24_Witness ==
    /\ GetTurnReturned
    /\ NotFound
    /\ arg.entity = R2
    /\ arg.stored = R1
    /\ out.value.envelope.reference = R2

(***************************************************************************)
(* An update_booking turn with nothing to update                           *)
(***************************************************************************)
\* update_booking_node has run on entities that carry no date, time or
\* party_size (no value or an empty one) and no special_requests
UpdatedNothing ==
    /\ Extracted
    /\ state.intent = "update_booking"
    /\ OpNode = "update_booking"
    /\ ~Present(state.entities, "date")
    /\ ~Present(state.entities, "time")
    /\ ~Present(state.entities, "party_size")
    /\ "special_requests" \notin DOMAIN state.entities

\* C25: an update_booking turn whose entities carry none of date, time,
\* party_size and special_requests sends no request to the reservation API;
\* the facade's envelope has success true and an empty set of updates, and
\* the turn's reply is the booking-updated confirmation.
C25_EmptyUpdate ==
    UpdatedNothing =>
        /\ Len(calls) = 1
        /\ calls[1].op = "update_booking"
        /\ ~calls[1].sent
        /\ state.last_api_response.success
        /\ state.last_api_response.updates = EmptyDict
        /\ Replies = <<AIMessage([kind |-> "booking_updated",
                                  reference |-> calls[1].booking_reference,
                                  updates |-> EmptyDict])>>

\* such a turn has returned, for the reference the session holds
C25_Witness ==
    /\ UpdatedNothing
    /\ Done
    /\ ~Present(state.entities, "booking_reference")
    /\ calls[1].booking_reference = R1

(***************************************************************************)
(* The date normalizer: precedence of the keywords, and dates in the past  *)
(***************************************************************************)
\* the keywords in their fixed order: 1 today, 2 tomorrow, 3 weekend or
\* saturday, 4 sunday, 5 next with friday, 6 next with week
Recognizes(k, l) ==
    IF k = 1 THEN Contains(l, W_today)
    ELSE IF k = 2 THEN Contains(l, W_tomorrow)
    ELSE IF k = 3 THEN Contains(l, W_weekend) \/ Contains(l, W_saturday)
    ELSE IF k = 4 THEN Contains(l, W_sunday)
    ELSE IF k = 5 THEN Contains(l, W_next) /\ Contains(l, W_friday)
    ELSE Contains(l, W_next) /\ Contains(l, W_week)
Recognized(l) == {k \in 1..6 : Recognizes(k, l)}
FirstOf(ks) == CHOOSE k \in ks : \A j \in ks : k <= j
\* the first day after t with weekday w
Upcoming(w, t) == t + CHOOSE d \in 1..7 : weekday(t + d) = w
\* the date keyword k stands for
DateMeant(k, t) ==
    IF k = 1 THEN t
    ELSE IF k = 2 THEN t + 1
    ELSE IF k = 3 THEN Upcoming(5, t)
    ELSE IF k = 4 THEN Upcoming(6, t)
    ELSE IF k = 5 THEN Upcoming(4, t)
    ELSE t + 7

\* C26: a date phrase that contains several recognized keywords resolves to
\* the date of the first of them in the order today, tomorrow, weekend or
\* saturday, sunday, next with friday, next with week, wherever they stand in
\* the phrase: 'next week sunday' is the upcoming Sunday, 'today tomorrow' and
\* 'tomorrow today' are today.
C26_FirstKeywordWins ==
    (DateReturned /\ arg.text # NoneT /\ Recognized(Lower(arg.text)) # {}) =>
        ReadDate(out.value) = DateMeant(FirstOf(Recognized(Lower(arg.text))), today)

\* 'next week sunday' on a day whose upcoming Sunday is not a week ahead
C26_Witness ==
    /\ DateReturned
    /\ arg.text = W_next \o Sp \o W_week \o Sp \o W_sunday
    /\ Recognized(Lower(arg.text)) = {4, 6}
    /\ ReadDate(out.value) = Upcoming(6, today)
    /\ ReadDate(out.value) # today + 7

\* C27: the date the date normalizer returns is never earlier than today.
C27_NeverPast == DateReturned => ReadDate(out.value) >= today

\* C28: the normalizers always return a text: the date normalizer a
\* YYYY-MM-DD text, which is tomorrow's date when there is no text to parse,
\* and the time normalizer an HH:MM:SS text, which is 19:00:00 when the text
\* cannot be parsed, a colon text of more than three parts included.
C28_AlwaysText ==
    /\ DateReturned => IsDateText(out.value)
    /\ (DateReturned /\ arg.expr = "none") => out.value = strftime_date(today + 1)
    /\ TimeReturned => IsTimeText(out.value)
    /\ (TimeReturned /\ arg.shape \in {"word", "none", "four"}) => out.value = DefaultTime

(***************************************************************************)
(* Parsing the extractor's reply                                           *)
(***************************************************************************)
ExtractionReturned == arg.fn = "_parse_extraction" /\ out # NoCall

\* line i of the reply, without the blanks around it
ReplyLine(i) == StripWs(arg.lines[i])
\* the lines that begin with 'Intent:' and with '- '
IntentLines == {i \in 1..Len(arg.lines) : StartsWith(ReplyLine(i), P_Intent)}
DashLines == {i \in 1..Len(arg.lines) : StartsWith(ReplyLine(i), P_Dash)}
LastOf(is) == CHOOSE i \in is : \A j \in is : j <= i

\* the label of an intent line: what follows 'Intent:', without the blanks
\* around it
LabelOf(line) == StripWs(SubSeq(line, Len(P_Intent) + 1, Len(line)))
\* what follows '- ' in an entity line
AfterDash(i) == SubSeq(ReplyLine(i), Len(P_Dash) + 1, Len(ReplyLine(i)))
HasColon(s) == \E j \in 1..Len(s) : s[j] = ":"
FirstColon(s) == CHOOSE j \in 1..Len(s) : s[j] = ":" /\ \A m \in 1..(j - 1) : s[m] # ":"
KeyOf(s) == StripWs(SubSeq(s, 1, FirstColon(s) - 1))
ValueOf(s) == StripWs(SubSeq(s, FirstColon(s) + 1, Len(s)))
\* the entity lines that have a colon
EntityLines == {i \in DashLines : HasColon(AfterDash(i))}

\* the intent is the lower-cased label of the last intent line, None when
\* there is none
IntentAsStated ==
    out.value.intent = IF IntentLines = {} THEN NoneT
                       ELSE Lower(LabelOf(ReplyLine(LastOf(IntentLines))))
\* the mapping has the keys of the entity lines, each with the value of the
\* last line of that key
EntitiesAsStated ==
    /\ DOMAIN out.value.entities = {KeyOf(AfterDash(i)) : i \in EntityLines}
    /\ \A i \in EntityLines :
          (\A j \in EntityLines : KeyOf(AfterDash(j)) = KeyOf(AfterDash(i)) => j <= i)
             => out.value.entities[KeyOf(AfterDash(i))] = ValueOf(AfterDash(i))

\* C29: for every sequence of reply lines, parsing yields the lower-cased
\* label of the last line that begins with 'Intent:' (None when there is
\* none) and the mapping of the lines that begin with '- ', split once at
\* their first colon: lines without colon are skipped, a value may hold
\* colons, a later line of the same key overwrites an earlier one. A reply
\* that is no text yields None and the empty mapping.
C29_ParsedAsStated ==
    ExtractionReturned =>
        IF arg.text = NoneT THEN out.value = Parsed(NoneT, EmptyDict)
        ELSE IntentAsStated /\ EntitiesAsStated

\* the same for the replies in which 'Intent:' stands at the start of lines
\* only
NoSecondIntent(line) == line = <<>> \/ RemoveAll(Tail(line), P_Intent) = Tail(line)
IntentOnce == \A i \in 1..Len(arg.lines) : NoSecondIntent(ReplyLine(i))
ParsedAsStatedIntentOnce ==
    (ExtractionReturned /\ arg.text # NoneT) =>
        /\ EntitiesAsStated
        /\ IntentOnce => IntentAsStated

(***************************************************************************)
(* The server frames of a connection                                       *)
(***************************************************************************)
\* the k-th server frame
FrameAt(sent, k) == sent[k]
Answers == {"response", "error"}

\* the server frames sent so far: the system frame first, then for each
\* client frame that was answered a typing frame and one response or error
\* frame, for client frames in the order they came
FramesInPairs(sent, last) ==
    /\ sent # <<>> => FrameAt(sent, 1) = [type |-> "system", frame |-> 0]
    /\ \A k \in 2..Len(sent) :
          /\ k % 2 = 0 => FrameAt(sent, k).type = "typing"
          /\ k % 2 = 1 => /\ FrameAt(sent, k).type \in Answers
                          /\ FrameAt(sent, k).frame = FrameAt(sent, k - 1).frame
          /\ FrameAt(sent, k).frame \in 1..last
          /\ k >= 4 => FrameAt(sent, k).frame >= FrameAt(sent, k - 2).frame
          /\ (k >= 4 /\ k % 2 = 0) => FrameAt(sent, k).frame > FrameAt(sent, k - 2).frame

\* the connection is about to read a client frame
Reading(w) == w.pc = "open"
\* a step of the connection that reads a client frame without message
ReadsEmpty == Reading(websocket) /\ Reading(websocket') /\ websocket'.frames = websocket.frames + 1
\* a step of the connection that reads a client frame with a message
ReadsMessage == Reading(websocket) /\ websocket'.pc = "running"

\* C30: the first server frame of a connection is the system frame; a client
\* frame with a message is answered with a typing frame and then exactly one
\* response or error frame, both sent before the next client frame is read;
\* a client frame without message is answered with no frame and changes
\* neither the state the connection holds nor the session store.
C30_ServerFrames ==
    [][/\ FramesInPairs(websocket'.sent, websocket'.frames)
       /\ websocket'.pc # "closed" => websocket'.sent # <<>>
       /\ Reading(websocket') => Len(websocket'.sent) % 2 = 1
       /\ ReadsMessage =>
             websocket'.sent = Append(websocket.sent,
                                      [type |-> "typing", frame |-> websocket'.frames])
       /\ ReadsEmpty =>
             /\ websocket'.sent = websocket.sent
             /\ websocket'.state = websocket.state
             /\ sessions' = sessions
             /\ heap' = heap]_vars

\* the first client frame had no message, the second was answered
C30_Witness ==
    /\ websocket.pc = "open"
    /\ websocket.frames = 2
    /\ websocket.sent = <<[type |-> "system", frame |-> 0],
                          [type |-> "typing", frame |-> 2],
                          [type |-> "response", frame |-> 2]>>
    /\ WsSessionId \in DOMAIN sessions

(***************************************************************************)
(* A turn whose intent extraction raised                                   *)
(***************************************************************************)
\* the completion call of intent extraction raised in the current turn
ExtractionFailed ==
    trace # <<>> /\ trace[1].node = "process_input" /\ trace[1].exc # NONE

\* C31: a turn in which intent extraction raises runs no booking operation
\* node and makes no gateway call, whatever intent and entities the turns
\* before it left in the state.
C31_FailedExtractionIdle ==
    ExtractionFailed => (OpNode \notin BookingIntents /\ calls = <<>>)

(***************************************************************************)
(* Turns of one session on both adapters                                   *)
(***************************************************************************)
\* no delete-session request has removed the id
NeverDeleted(id) == ~(cleared.n > 0 /\ cleared.found /\ cleared.id = id)

\* the single-shot request ran on the connection's session between the turns
\* of the two frames, and all three turns are over
ChatBetweenFrames ==
    /\ websocket.pc = "open" /\ websocket.turns = 2
    /\ Over(1) /\ chats[1].id = WsSessionId
    /\ ~TurnOf(1).fresh
    /\ chats[1].result < websocket.stored

\* the assistant messages of state s include the reply
HoldsReply(s, reply) ==
    \E i \in 1..Len(AIMessages(s)) : AIMessages(s)[i].content = reply

\* C32: when the turns of a session id never overlap (and the id is not
\* deleted meanwhile), each turn starts from the state the turn before it
\* stored, on whichever adapter the two came: with no turn in flight the store
\* holds what the turns give when each runs on the result of the one before,
\* and the reply of a single-shot turn between two frames of a connection is
\* in the state stored after the second frame.
C32_TurnsChain ==
    \A id \in SessionIds :
        (~ghost.overlap[id] /\ NeverDeleted(id) /\ InFlight(id) = {}) =>
            /\ StoredValue(id) = ghost.solo[id]
            /\ (id = WsSessionId /\ ChatBetweenFrames /\ chats[1].outcome.graph = "ok") =>
                HoldsReply(Stored(id), chats[1].reply)

\* the claim's own case: the request between the two frames created booking
\* R1, and the state stored after the second frame holds neither the
\* reference nor the confirmation
LostBetweenFrames ==
    /\ ChatBetweenFrames
    /\ ~ghost.overlap[WsSessionId] /\ NeverDeleted(WsSessionId)
    /\ chats[1].value.current_booking_reference = R1
    /\ chats[1].reply.kind = "booking_created"
    /\ Stored(WsSessionId).current_booking_reference = NoneT
    /\ ~HoldsReply(Stored(WsSessionId), chats[1].reply)

(***************************************************************************)
(* Turns after delete-session                                              *)
(***************************************************************************)
\* the latest delete-session request removed the id, and no turn has stored
\* it since
DeletedAndGone(id) ==
    cleared.n > 0 /\ cleared.found /\ cleared.id = id /\ id \notin DOMAIN sessions

\* the step is the start of a turn of the id: of single-shot request r, of a
\* frame of the connection
ChatBegins(r, id) == chats[r].pc = "new" /\ chats'[r].pc = "running" /\ chats'[r].id = id
WsBegins(id) == id = WsSessionId /\ websocket.pc = "open" /\ websocket'.pc = "running"
\* the step is the end of a turn of the id
TurnEnds(id) ==
    \/ \E r \in Chats : chats[r].pc = "running" /\ chats'[r].pc = "done" /\ chats[r].id = id
    \/ id = WsSessionId /\ websocket.pc = "running" /\ websocket'.pc = "open"

\* a state as initialize_state leaves it: no message, no reference, nothing
\* pending
FreshState(s) ==
    /\ s.messages = <<>>
    /\ s.current_booking_reference = NoneT
    /\ s.pending_booking = EmptyDict

\* C33: a delete-session request that succeeds leaves no entry for the id;
\* the id stays absent until a turn of the id ends, and a turn of the id that
\* starts meanwhile starts from a freshly initialised state, on a single-shot
\* request and on a connection, also one that was open before the delete.
C33_FreshAfterDelete ==
    [][/\ (cleared'.n # cleared.n /\ cleared'.found) => cleared'.id \notin DOMAIN sessions'
       /\ \A id \in SessionIds :
            DeletedAndGone(id) =>
                /\ id \in DOMAIN sessions' => TurnEnds(id)
                /\ \A r \in Chats :
                       ChatBegins(r, id) =>
                           chats'[r].tn.fresh /\ FreshState(chats'[r].tn.before)
                /\ WsBegins(id) =>
                       websocket'.tn.fresh /\ FreshState(websocket'.tn.before)]_vars

\* the claim's last case: the connection had stored a turn when the session
\* was deleted, and the turn of its next frame runs on that old state
StaleAfterDelete ==
    /\ DeletedAndGone(WsSessionId)
    /\ websocket.pc = "running"
    /\ ~websocket.tn.fresh
    /\ websocket.tn.before = websocket.storedval
    /\ websocket.tn.before.messages # <<>>

PartySizeNoNumber ==
    /\ HasRouted
    /\ Selected \in {"check_availability", "create_booking"}
    /\ ~IntOk(Get(state.entities, "party_size"))

\* C35: when check_availability or create_booking is selected with a
\* party_size that int() rejects, the turn makes no gateway call, leaves
\* current_booking_reference and last_api_response as they were before the
\* turn, and ends with one assistant message, the apology.
C35_PartySizeNoNumber ==
    PartySizeNoNumber =>
        /\ calls = <<>>
        /\ state.current_booking_reference = pre.current_booking_reference
        /\ state.last_api_response = pre.last_api_response
        /\ Done =>
            /\ Len(Replies) = 1
            /\ Replies[1].role = "ai"
            /\ Replies[1].content.kind = "error_apology"

\* a session that holds the reference and the envelope of an earlier
\* create_booking ends a create_booking turn for "many" people
C35_Witness ==
    /\ Done
    /\ PartySizeNoNumber
    /\ Selected = "create_booking"
    /\ state.entities["party_size"] = T_many
    /\ pre.current_booking_reference # NoneT
    /\ pre.last_api_response # NoneEnv
    /\ OpNode = "create_booking"

(***************************************************************************)
(* The stored reference over a cancel_booking turn                         *)
(***************************************************************************)
\* the turn ran cancel_booking_node and is over
CancelTurn == Done /\ OpNode = "cancel_booking"
\* the reference cancel_booking_node asks the gateway to cancel: that of the
\* entities, else the stored one
CancelAsked == Or(Get(state.entities, "booking_reference"), pre.current_booking_reference)

\* C36: a cancel_booking turn makes one gateway call, for the reference of the
\* entities or else the stored one; when the call succeeds
\* current_booking_reference is absent after the turn, also when the cancelled
\* reference is not the stored one, and when the call fails the stored
\* reference is what it was.
C36_CancelClearsReference ==
    CancelTurn =>
        /\ Len(calls) = 1
        /\ calls[1].op = "cancel_booking"
        /\ calls[1].booking_reference = CancelAsked
        /\ ~calls[1].raised => state.current_booking_reference = NoneT
        /\ calls[1].raised => state.current_booking_reference = pre.current_booking_reference

\* the session held R1, the turn cancelled R2: R1 is dropped
C36_Witness ==
    /\ CancelTurn
    /\ pre.current_booking_reference = R1
    /\ calls[1].booking_reference = R2
    /\ ~calls[1].raised
    /\ state.current_booking_reference = NoneT

(***************************************************************************)
(* The entries of the session store                                        *)
(***************************************************************************)
\* the step belongs to the connection and is not the end of a frame's turn:
\* it opens, reads a frame or closes
ConnectionStep ==
    /\ websocket.pc # "running"
    /\ websocket'.pc # websocket.pc \/ websocket'.frames # websocket.frames

\* C37: after every step of single-shot requests, frames and deletes each
\* entry of the store is a state whose session_id is its key; an entry goes
\* away only in a delete-session step; and a step of the connection other
\* than the end of a processed message (accept, a frame without message, the
\* start of a turn, disconnect) leaves the store as it is.
C37_StoreEntries ==
    [][/\ \A k \in DOMAIN sessions' : heap'[sessions'[k]].session_id = k
       /\ ~(DOMAIN sessions \subseteq DOMAIN sessions') => cleared'.n # cleared.n
       /\ ConnectionStep => sessions' = sessions]_vars

\* a connection on s1 was opened, read a frame without message and was
\* closed; s1, stored by a single-shot request, is still filed under s1, and
\* a delete of the other id found nothing
C37_Witness ==
    /\ websocket.pc = "gone"
    /\ websocket.turns = 0
    /\ websocket.frames > 0
    /\ DOMAIN sessions = {WsSessionId}
    /\ Stored(WsSessionId).session_id = WsSessionId
    /\ Over(1)
    /\ cleared.n = 1 /\ ~cleared.found

====
